---- MODULE Spec2Model ----
(***************************************************************************)
(* Model of the practice engine of Taal: the TutorPane session/loop state  *)
(* machine of apps/desktop/src/main.rs (transport, pre-roll, per-frame     *)
(* advance, missed detection, loop boundary, live hit matcher), the batch  *)
(* scorer of crates/tutor/src/scoring.rs, the lesson progress tracker of   *)
(* crates/tutor/src/session.rs and the tempo map of                        *)
(* crates/domain/src/tempo.rs.                                             *)
(*                                                                         *)
(* Units.  The code computes with f64/f32; the model computes with exact   *)
(* integers in units that make every product of the code an integer:       *)
(*   time      : milliseconds                                              *)
(*   beats     : 1/60000 beat, so that  dt * bpm / 60  (seconds * bpm/60   *)
(*               beats) is  dt_ms * bpm  units                             *)
(*   percents  : tenths of a percent (12.5 % = 125), so that pct/100 beat  *)
(*               is  pct * 60  units                                       *)
(* Floating-point rounding is not modelled.                                *)
(***************************************************************************)
EXTENDS Integers, Sequences, FiniteSets, TLC

VARIABLES
    settings,            \* SettingsPane: the fields the practice engine reads
    midi_q,              \* mpsc channel from the MIDI callback: seq of <<status, note, vel>>
    pc,                  \* position inside DesktopApp::update: "poll" | "ui"
    midi_rx,             \* TutorPane.midi_rx is Some
    session,             \* 0 = None, otherwise the index of the loaded chart
    current_index,       \* SessionState.current_index
    completed,           \* SessionState.completed
    hits,                \* TutorPane.hits: seq of [beat, piece, velocity]
    analytics,           \* <<>> (None) or <<report>>: the PerformanceReport of SessionAnalytics
    playing,
    bpm,
    playhead,
    next_click_beat,
    pre_roll_active,
    pre_roll_remaining,
    elapsed_secs,
    statuses,            \* seq of "None" | HitLabel
    loop_total,
    loops_done,
    end_beat,
    mode,                \* "FreePlay" | "Test"
    loop_use_region,
    loop_a,
    loop_b,
    review_active,
    bpm_initialized_from_settings,
    per_piece_snapshot,  \* <<>> (None) or <<counts>>: the per-piece counts of the review card
    tempo_map,           \* <<>> (None) or <<events>>: the TempoMap a caller of the domain crate holds
    ret                  \* the last call into the domain and tutor crates: its arguments and result

vars == <<settings, midi_q, pc, midi_rx, session, current_index, completed, hits,
          analytics, playing, bpm, playhead, next_click_beat, pre_roll_active,
          pre_roll_remaining, elapsed_secs, statuses, loop_total, loops_done,
          end_beat, mode, loop_use_region, loop_a, loop_b, review_active,
          bpm_initialized_from_settings, per_piece_snapshot, tempo_map, ret>>

----------------------------------------------------------------------------
(* Numbers of the program *)

\* milliseconds per minute: the model's beat unit is 1/60000 beat
BeatUnit == 60000
\* u8::MAX, the width of loops_done and loop_total
U8Max == 255
\* batch scorer threshold, milliseconds
BatchThresholdMs == 50
\* MIDI status nibble of a Note On
NoteOn == 144
\* slider range of the practice BPM
BpmMin == 40
BpmMax == 240
\* velocity of the "Simulate Hit" button
SimVelocity == 100

(* Bounds of the model *)

\* hits kept in TutorPane.hits
MaxHits == 1
\* loop passes counted in the matching and loop specifications
MaxPasses == 2
\* messages waiting in the MIDI channel
MaxQueue == 1

\* grid step of the charts of the matching specification: 1/16 beat, which is
\* 25 ms at 150 BPM
Grid == BeatUnit \div 16

None == "None"
\* ret before any call into the crates
NoCall == [op |-> "none"]
HitLabel == {"OnTime", "Late", "Early", "Missed"}

Min(a, b) == IF a < b THEN a ELSE b
Max(a, b) == IF a < b THEN b ELSE a
Abs(a) == IF a < 0 THEN 0 - a ELSE a

----------------------------------------------------------------------------
(* Charts: LessonDescriptor values handed to load_lesson *)

Ev(b, p) == [beat |-> b, piece |-> p]
Tempo(t, b) == [time |-> t, bpm |-> b]

\* two snare notes 3/8 beat apart, stored out of beat order
ChartA == [default_tempo |-> <<Tempo(0, 150)>>,
           notation |-> <<Ev(6 * Grid, "Snare"), Ev(0, "Snare")>>]
\* three notes on two pieces, with a tempo change after 100 ms
ChartB == [default_tempo |-> <<Tempo(0, 150), Tempo(100, 300)>>,
           notation |-> <<Ev(0, "Snare"), Ev(4 * Grid, "Bass"), Ev(12 * Grid, "Snare")>>]
\* a single note at beat 0: end_beat is 0
ChartC == [default_tempo |-> <<Tempo(0, 150)>>,
           notation |-> <<Ev(0, "Snare")>>]

\* a snare at beat 2 and a bass drum at beat 4, at 60 BPM
ChartD == [default_tempo |-> <<Tempo(0, 60)>>,
           notation |-> <<Ev(2 * BeatUnit, "Snare"), Ev(4 * BeatUnit, "Bass")>>]

\* a lesson without notation
ChartE == [default_tempo |-> <<Tempo(0, 120)>>, notation |-> <<>>]

Charts == <<ChartA, ChartB, ChartC, ChartD, ChartE>>

Lesson(s) == Charts[s.session]

----------------------------------------------------------------------------
(* TempoEvent and TempoMap (crates/domain/src/tempo.rs).  Times are in
   milliseconds, a Result is a record with the field ok, and a call that may
   panic yields Returned(v) or Panic. *)

TempoBpmMin == 10
TempoBpmMax == 400
\* nanoseconds per millisecond: time::Duration counts whole nanoseconds
NanosPerMilli == 1000000

Ok(v) == [ok |-> TRUE, value |-> v]
Err(msg) == [ok |-> FALSE, error |-> "Validation", message |-> msg]
Returned(v) == <<v>>
Panic == <<>>

\* a TempoEvent value: TempoEvent::new or, the fields being pub, a struct literal
TempoEvent(t, b, sig) == [time |-> t, bpm |-> b, signature |-> sig]

\* u8::is_power_of_two
is_power_of_two(x) == x \in {1, 2, 4, 8, 16, 32, 64, 128}

\* the constructor with the bounds of the bpm range excluded
TempoEvent_new_exclusive(time, tempo, signature) ==
    IF time < 0 THEN Err("tempo events cannot have negative time")
    ELSE IF ~(TempoBpmMin < tempo /\ tempo < TempoBpmMax)
    THEN Err("tempo bpm must be between 10 and 400")
    ELSE IF signature[1] = 0 \/ ~is_power_of_two(signature[2])
    THEN Err("time signature denominator must be power of two")
    ELSE Ok(TempoEvent(time, tempo, signature))

TempoEvent_new(time, tempo, signature) ==
    IF time < 0 THEN Err("tempo events cannot have negative time")
    ELSE IF ~(TempoBpmMin <= tempo /\ tempo <= TempoBpmMax)
    THEN Err("tempo bpm must be between 10 and 400")
    ELSE IF signature[1] = 0 \/ ~is_power_of_two(signature[2])
    THEN Err("time signature denominator must be power of two")
    ELSE Ok(TempoEvent(time, tempo, signature))

\* sort_by on the time: a stable sort, as insertion of each event after the
\* events that are not later than it
RECURSIVE InsertByTime(_, _, _)
InsertByTime(sorted, e, i) ==
    IF i > Len(sorted) THEN Append(sorted, e)
    ELSE IF sorted[i].time > e.time
    THEN SubSeq(sorted, 1, i - 1) \o <<e>> \o SubSeq(sorted, i, Len(sorted))
    ELSE InsertByTime(sorted, e, i + 1)

RECURSIVE SortByTime(_, _)
SortByTime(events, n) ==
    IF n = 0 THEN <<>> ELSE InsertByTime(SortByTime(events, n - 1), events[n], 1)

\* the constructor without the sort
TempoMap_new_unsorted(events) ==
    IF Len(events) > 0
    THEN IF events[1].time # 0 THEN Err("tempo map must start at time 0")
         ELSE Ok(events)
    ELSE Err("tempo map requires at least one event")

TempoMap_new(events) ==
    LET sorted == SortByTime(events, Len(events))
    IN IF Len(sorted) > 0
       THEN IF sorted[1].time # 0 THEN Err("tempo map must start at time 0")
            ELSE Ok(sorted)
       ELSE Err("tempo map requires at least one event")

TempoMap_constant(tempo) ==
    LET event == TempoEvent_new(0, tempo, <<4, 4>>)
    IN IF event.ok THEN Ok(<<event.value>>) ELSE event

\* #[derive(Default)]: the events of TempoMap::default()
TempoMap_default == <<>>

\* the scan that passes over an event only when its time is before the query
RECURSIVE BpmScanStrict(_, _, _, _)
BpmScanStrict(events, time, i, current) ==
    IF i > Len(events) THEN current
    ELSE IF events[i].time < time THEN BpmScanStrict(events, time, i + 1, events[i])
    ELSE current

RECURSIVE BpmScan(_, _, _, _)
BpmScan(events, time, i, current) ==
    IF i > Len(events) THEN current
    ELSE IF events[i].time <= time THEN BpmScan(events, time, i + 1, events[i])
    ELSE current

\* self.events.first().expect("tempo map not empty") panics on an empty map
bpm_at(events, time) ==
    IF Len(events) = 0 THEN Panic ELSE Returned(BpmScan(events, time, 1, events[1]).bpm)

\* the same loop, returning current.signature
time_signature_at(events, time) ==
    IF Len(events) = 0 THEN Panic
    ELSE Returned(BpmScan(events, time, 1, events[1]).signature)

\* the scan that forgets the beats of the segments already passed
RECURSIVE BeatScanNoAccum(_, _, _, _, _, _)
BeatScanNoAccum(events, time, i, prev_time, beat_accum, current) ==
    IF i > Len(events) \/ events[i].time > time
    THEN (time - prev_time) * current.bpm
    ELSE BeatScanNoAccum(events, time, i + 1, events[i].time, 0, events[i])

RECURSIVE BeatScan(_, _, _, _, _, _)
BeatScan(events, time, i, prev_time, beat_accum, current) ==
    IF i > Len(events) \/ events[i].time > time
    THEN beat_accum + (time - prev_time) * current.bpm
    ELSE BeatScan(events, time, i + 1, events[i].time,
                  beat_accum + (events[i].time - prev_time) * current.bpm, events[i])

\* self.events[0] panics on an empty map
beat_at_time(events, time) ==
    IF Len(events) = 0 THEN Panic ELSE Returned(BeatScan(events, time, 2, 0, 0, events[1]))

\* the loop of duration_between_beats: seconds is kept as the numerator of
\* seconds = num / bpm milliseconds (a beat unit lasts 1 / bpm ms); a loop that
\* adds a whole beat on every pass, without remaining_beats.min(1.0)
RECURSIVE DurationScanWholeBeats(_, _, _)
DurationScanWholeBeats(beat_cursor, to_beat, num) ==
    IF beat_cursor < to_beat
    THEN DurationScanWholeBeats(beat_cursor + BeatUnit, to_beat, num + BeatUnit)
    ELSE num

RECURSIVE DurationScan(_, _, _)
DurationScan(beat_cursor, to_beat, num) ==
    IF beat_cursor < to_beat
    THEN DurationScan(beat_cursor + BeatUnit, to_beat,
                      num + Min(to_beat - beat_cursor, BeatUnit))
    ELSE num

\* Duration::seconds_f64 of num / den milliseconds: whole milliseconds and the
\* nanoseconds of the rest, which the conversion rounds down or up to a whole
\* nanosecond
seconds_f64(num, den) ==
    LET rest == (num % den) * NanosPerMilli
    IN {[ms |-> num \div den, ns |-> rest \div den],
        [ms |-> num \div den, ns |-> (rest + den - 1) \div den]}

\* the Durations duration_between_beats may return; it reads the tempo of
\* self.events[0] only and panics on an empty map
duration_between_beats(events, from_beat, to_beat) ==
    IF Len(events) = 0 THEN {Panic}
    ELSE {Returned(d) : d \in seconds_f64(DurationScan(from_beat, to_beat, 0), events[1].bpm)}

\* beat_at_time at the time of a Duration d: the beat units reached at d.ms and
\* the millionths of a unit that d.ns nanoseconds add at the tempo in force
beat_at_duration(events, d) ==
    <<beat_at_time(events, d.ms)[1], d.ns * bpm_at(events, d.ms)[1]>>

----------------------------------------------------------------------------
(* The TutorPane as one record, so that the calls of one frame compose *)

Pane == [midi_rx |-> midi_rx, session |-> session, current_index |-> current_index,
         completed |-> completed, hits |-> hits, analytics |-> analytics,
         playing |-> playing, bpm |-> bpm, playhead |-> playhead,
         next_click_beat |-> next_click_beat, pre_roll_active |-> pre_roll_active,
         pre_roll_remaining |-> pre_roll_remaining, elapsed_secs |-> elapsed_secs,
         statuses |-> statuses, loop_total |-> loop_total, loops_done |-> loops_done,
         end_beat |-> end_beat, mode |-> mode, loop_use_region |-> loop_use_region,
         loop_a |-> loop_a, loop_b |-> loop_b, review_active |-> review_active,
         bpm_initialized_from_settings |-> bpm_initialized_from_settings,
         per_piece_snapshot |-> per_piece_snapshot]

Commit(r) ==
    /\ midi_rx' = r.midi_rx
    /\ session' = r.session
    /\ current_index' = r.current_index
    /\ completed' = r.completed
    /\ hits' = r.hits
    /\ analytics' = r.analytics
    /\ playing' = r.playing
    /\ bpm' = r.bpm
    /\ playhead' = r.playhead
    /\ next_click_beat' = r.next_click_beat
    /\ pre_roll_active' = r.pre_roll_active
    /\ pre_roll_remaining' = r.pre_roll_remaining
    /\ elapsed_secs' = r.elapsed_secs
    /\ statuses' = r.statuses
    /\ loop_total' = r.loop_total
    /\ loops_done' = r.loops_done
    /\ end_beat' = r.end_beat
    /\ mode' = r.mode
    /\ loop_use_region' = r.loop_use_region
    /\ loop_a' = r.loop_a
    /\ loop_b' = r.loop_b
    /\ review_active' = r.review_active
    /\ bpm_initialized_from_settings' = r.bpm_initialized_from_settings
    /\ per_piece_snapshot' = r.per_piece_snapshot

\* TutorPane::new
NewPane ==
    [midi_rx |-> FALSE, session |-> 0, current_index |-> 0, completed |-> FALSE,
     hits |-> <<>>, analytics |-> <<>>, playing |-> FALSE, bpm |-> 120, playhead |-> 0,
     next_click_beat |-> 0, pre_roll_active |-> FALSE, pre_roll_remaining |-> 0,
     elapsed_secs |-> 0, statuses |-> <<>>, loop_total |-> 2, loops_done |-> 0,
     end_beat |-> 0, mode |-> "FreePlay", loop_use_region |-> FALSE, loop_a |-> 0,
     loop_b |-> 0, review_active |-> FALSE, bpm_initialized_from_settings |-> FALSE,
     per_piece_snapshot |-> <<>>]

\* Vec::get on the status table: None when the index is out of range
StatusGet(st, i) == IF i \in DOMAIN st THEN st[i] ELSE None
\* an assignment that also labels the entries after index i that are None
StatusSetOnwards(st, i, l) ==
    [j \in DOMAIN st |-> IF j = i \/ (j > i /\ st[j] = None) THEN l ELSE st[j]]
\* Vec::get_mut followed by an assignment: nothing when the index is out of range
StatusSet(st, i, l) == IF i \in DOMAIN st THEN [st EXCEPT ![i] = l] ELSE st

\* fold of f64::max over the notated beats, from 0.0
RECURSIVE MaxBeat(_, _)
MaxBeat(notation, i) ==
    IF i > Len(notation) THEN 0 ELSE Max(notation[i].beat, MaxBeat(notation, i + 1))

----------------------------------------------------------------------------
(* Tolerance windows, in beat units *)

\* min(pct / 100, cap_ms / 1000 * bpm / 60)
WindowBeats(pct, cap_ms, bpm_used) == Min(pct * (BeatUnit \div 1000), cap_ms * bpm_used)

\* the matcher's beat_window (main.rs 1665-1667): uses self.bpm
MatchWindow(s, cfg) ==
    WindowBeats(cfg.practice_match_window_pct, cfg.practice_match_cap_ms, s.bpm)

\* the matcher's ontime_beats (main.rs 1673-1674)
OnTimeWindow(s, cfg) ==
    WindowBeats(cfg.practice_on_time_pct, cfg.practice_on_time_cap_ms, s.bpm)

\* latency compensated beat of a strike (main.rs 1656-1657)
HitBeat(s, cfg) == Max(s.playhead - cfg.latency_ms * s.bpm, 0)

----------------------------------------------------------------------------
(* SessionState::register_hit (crates/tutor/src/session.rs) *)

\* a register_hit that advances on a hit of any piece
register_hit_any_piece(s, piece) ==
    LET notation == Lesson(s).notation
        idx == IF s.current_index < Len(notation)
               THEN s.current_index + 1 ELSE s.current_index
    IN [s EXCEPT !.current_index = idx,
                 !.completed = IF idx >= Len(notation) THEN TRUE ELSE s.completed]

register_hit(s, piece) ==
    LET notation == Lesson(s).notation
        idx == IF s.current_index < Len(notation)
                  /\ notation[s.current_index + 1].piece = piece
               THEN s.current_index + 1 ELSE s.current_index
    IN [s EXCEPT !.current_index = idx,
                 !.completed = IF idx >= Len(notation) THEN TRUE ELSE s.completed]

----------------------------------------------------------------------------
(* TutorPane::handle_live_hit *)

\* a scan that does not skip the entries that already carry a label
RECURSIVE BestScanRevisit(_, _, _, _, _, _)
BestScanRevisit(notation, st, piece, hit_beat, beat_window, i) ==
    IF i = 0 THEN <<>>
    ELSE LET best == BestScanRevisit(notation, st, piece, hit_beat, beat_window, i - 1)
             d == Abs(notation[i].beat - hit_beat)
         IN IF notation[i].piece # piece THEN best
            ELSE IF d < beat_window /\ (best = <<>> \/ d < best[2]) THEN <<i, d>>
            ELSE best

\* a scan in which the last of two equidistant candidates wins
RECURSIVE BestScanLastWins(_, _, _, _, _, _)
BestScanLastWins(notation, st, piece, hit_beat, beat_window, i) ==
    IF i = 0 THEN <<>>
    ELSE LET best == BestScanLastWins(notation, st, piece, hit_beat, beat_window, i - 1)
             d == Abs(notation[i].beat - hit_beat)
         IN IF notation[i].piece # piece THEN best
            ELSE IF StatusGet(st, i) # None THEN best
            ELSE IF d < beat_window /\ (best = <<>> \/ d <= best[2]) THEN <<i, d>>
            ELSE best

\* the scan for the nearest unmatched expected event of this piece:
\* best is <<index, distance>> or <<>>
RECURSIVE BestScan(_, _, _, _, _, _)
BestScan(notation, st, piece, hit_beat, beat_window, i) ==
    IF i = 0 THEN <<>>
    ELSE LET best == BestScan(notation, st, piece, hit_beat, beat_window, i - 1)
             d == Abs(notation[i].beat - hit_beat)
         IN IF notation[i].piece # piece THEN best
            ELSE IF StatusGet(st, i) # None THEN best
            ELSE IF d < beat_window /\ (best = <<>> \/ d < best[2]) THEN <<i, d>>
            ELSE best

\* a classification whose on-time window includes its edge
ClassifyInclusive(delta, ontime_beats) ==
    IF Abs(delta) <= ontime_beats THEN "OnTime"
    ELSE IF delta > 0 THEN "Late" ELSE "Early"

\* the label of a resolved strike
Classify(delta, ontime_beats) ==
    IF Abs(delta) < ontime_beats THEN "OnTime"
    ELSE IF delta > 0 THEN "Late" ELSE "Early"

handle_live_hit(s, cfg, piece, vel) ==
    LET hit_beat == HitBeat(s, cfg)
    IN IF s.session = 0 THEN s
       ELSE LET notation == Lesson(s).notation
                best == BestScan(notation, s.statuses, piece, hit_beat,
                                 MatchWindow(s, cfg), Len(notation))
            IN IF best = <<>> THEN s
               ELSE LET idx == best[1]
                        delta == hit_beat - notation[idx].beat
                        label == Classify(delta, OnTimeWindow(s, cfg))
                        ev == [beat |-> hit_beat, piece |-> piece, velocity |-> vel]
                        s1 == [s EXCEPT !.statuses = StatusSet(s.statuses, idx, label)]
                        s2 == register_hit(s1, piece)
                    IN [s2 EXCEPT !.hits = Append(s2.hits, ev)]

----------------------------------------------------------------------------
(* ScoringEngine::score_with_spb (crates/tutor/src/scoring.rs) *)

EmptyReport == [accuracy |-> <<0, 1>>, early_hits |-> 0, late_hits |-> 0]

\* a pair that counts only when the hit is on the expected piece
PairScoreSamePiece(expected, actual, practice_bpm) ==
    LET delta_beats == actual.beat - expected.beat
    IN IF Abs(delta_beats) < BatchThresholdMs * practice_bpm /\ actual.piece = expected.piece
       THEN <<1, IF delta_beats < 0 THEN 1 ELSE 0, IF delta_beats > 0 THEN 1 ELSE 0>>
       ELSE <<0, 0, 0>>

\* the zip of notation and hits, pair i: <<matched, early, late>> increments;
\* delta_ms = |delta_beats * (60 / bpm) * 1000| < 50  is  |delta| < 50 * bpm  in beat units
PairScore(expected, actual, practice_bpm) ==
    LET delta_beats == actual.beat - expected.beat
    IN IF Abs(delta_beats) < BatchThresholdMs * practice_bpm
       THEN <<1, IF delta_beats < 0 THEN 1 ELSE 0, IF delta_beats > 0 THEN 1 ELSE 0>>
       ELSE <<0, 0, 0>>

RECURSIVE ZipScore(_, _, _, _)
ZipScore(notation, hit_log, practice_bpm, i) ==
    IF i > Len(notation) \/ i > Len(hit_log) THEN <<0, 0, 0>>
    ELSE LET here == PairScore(notation[i], hit_log[i], practice_bpm)
             rest == ZipScore(notation, hit_log, practice_bpm, i + 1)
         IN <<here[1] + rest[1], here[2] + rest[2], here[3] + rest[3]>>

\* the scorer without the is_empty() return: the division by notation.len() = 0
score_with_spb_unguarded(notation, hit_log, practice_bpm) ==
    LET z == ZipScore(notation, hit_log, practice_bpm, 1)
    IN [accuracy |-> <<z[1], Len(notation)>>, early_hits |-> z[2], late_hits |-> z[3]]

\* accuracy is kept as the fraction <<matched, notation.len()>>
score_with_spb(notation, hit_log, practice_bpm) ==
    IF Len(notation) = 0 THEN EmptyReport
    ELSE LET z == ZipScore(notation, hit_log, practice_bpm, 1)
         IN [accuracy |-> <<z[1], Len(notation)>>, early_hits |-> z[2], late_hits |-> z[3]]

(* ScoringEngine::score: the same zip with the threshold |delta| < 0.25 beat *)

PairBeats(expected, actual) ==
    LET delta == actual.beat - expected.beat
    IN IF Abs(delta) < BeatUnit \div 4
       THEN <<1, IF delta < 0 THEN 1 ELSE 0, IF delta > 0 THEN 1 ELSE 0>>
       ELSE <<0, 0, 0>>

RECURSIVE ZipBeats(_, _, _)
ZipBeats(notation, hit_log, i) ==
    IF i > Len(notation) \/ i > Len(hit_log) THEN <<0, 0, 0>>
    ELSE LET here == PairBeats(notation[i], hit_log[i])
             rest == ZipBeats(notation, hit_log, i + 1)
         IN <<here[1] + rest[1], here[2] + rest[2], here[3] + rest[3]>>

score(notation, hit_log) ==
    IF Len(notation) = 0 THEN EmptyReport
    ELSE LET z == ZipBeats(notation, hit_log, 1)
         IN [accuracy |-> <<z[1], Len(notation)>>, early_hits |-> z[2], late_hits |-> z[3]]

----------------------------------------------------------------------------
(* SessionAnalytics::update_statistics (crates/tutor/src/analytics.rs).  The
   average and the accuracy of the report are exact fractions <<num, den>> in
   lowest terms; the rounding of f32 is not modelled. *)

RECURSIVE GCD(_, _)
GCD(a, b) == IF b = 0 THEN a ELSE GCD(b, a % b)

Lowest(num, den) == <<num \div GCD(num, den), den \div GCD(num, den)>>

\* PracticeStatistics::new (crates/domain/src/lesson.rs)
PracticeStatistics_new == [average_accuracy |-> <<0, 1>>, highest_streak |-> 0]

\* an update whose decrement has no floor
update_statistics_no_floor(stats, accuracy) ==
    [average_accuracy |->
        Lowest(stats.average_accuracy[1] * accuracy[2] + accuracy[1] * stats.average_accuracy[2],
               2 * stats.average_accuracy[2] * accuracy[2]),
     highest_streak |->
        IF 10 * accuracy[1] > 9 * accuracy[2]
        THEN stats.highest_streak + 1
        ELSE stats.highest_streak - 1]

\* accuracy > 0.9 is 10 * num > 9 * den; saturating_sub(1) stops at 0
update_statistics(stats, accuracy) ==
    [average_accuracy |->
        Lowest(stats.average_accuracy[1] * accuracy[2] + accuracy[1] * stats.average_accuracy[2],
               2 * stats.average_accuracy[2] * accuracy[2]),
     highest_streak |->
        IF 10 * accuracy[1] > 9 * accuracy[2]
        THEN stats.highest_streak + 1
        ELSE Max(stats.highest_streak - 1, 0)]

----------------------------------------------------------------------------
(* TutorPane::load_lesson *)

\* a load that keeps the status table of the previous chart
load_lesson_keep_statuses(s, c) ==
    [s EXCEPT !.session = c, !.current_index = 0, !.completed = FALSE,
              !.hits = <<>>, !.analytics = <<>>, !.playhead = 0,
              !.end_beat = MaxBeat(Charts[c].notation, 1),
              !.loops_done = 0, !.review_active = FALSE,
              !.bpm_initialized_from_settings = FALSE]

load_lesson(s, c) ==
    [s EXCEPT !.session = c, !.current_index = 0, !.completed = FALSE,
              !.hits = <<>>, !.analytics = <<>>, !.playhead = 0,
              !.statuses = [i \in 1..Len(Charts[c].notation) |-> None],
              !.end_beat = MaxBeat(Charts[c].notation, 1),
              !.loops_done = 0, !.review_active = FALSE,
              !.bpm_initialized_from_settings = FALSE]

(* TutorPane::sync_settings: the fields of the pane that are not plain copies *)

Clamp(x, lo, hi) == IF x < lo THEN lo ELSE IF x > hi THEN hi ELSE x

sync_settings(s, cfg) ==
    LET s1 == [s EXCEPT !.midi_rx = cfg.midi_selected,
                        !.loop_total = cfg.practice_default_loop_count]
    IN IF s1.session = 0 THEN s1
       ELSE LET base == Lesson(s1).default_tempo[1].bpm
                s2 == IF ~cfg.tutor_use_lesson_tempo /\ ~s1.playing /\ s1.playhead = 0
                         /\ ~s1.bpm_initialized_from_settings
                      THEN [s1 EXCEPT
                              !.bpm = Clamp((base * cfg.practice_tempo_scale_default) \div 100,
                                            BpmMin, BpmMax),
                              !.bpm_initialized_from_settings = TRUE]
                      ELSE s1
            IN IF s2.end_beat <= 0
               THEN [s2 EXCEPT !.end_beat = MaxBeat(Lesson(s2).notation, 1)]
               ELSE s2

(* TutorPane::poll_midi: the drained buffer, message by message.  order is the
   iteration order of the mapping's HashMap, which find_map follows. *)

IsNoteOn(status) == (status \div 16) * 16 = NoteOn

RECURSIVE FindPiece(_, _, _, _)
FindPiece(mapping, order, note, i) ==
    IF i > Len(order) THEN None
    ELSE IF mapping[order[i]] = note THEN order[i]
    ELSE FindPiece(mapping, order, note, i + 1)

\* a drain that handles the first waiting message only
DrainHitsFirstOnly(s, cfg, order, buf, i) ==
    IF Len(buf) = 0 THEN s
    ELSE LET piece == FindPiece(cfg.mapping, order, buf[1][2], 1)
         IN IF IsNoteOn(buf[1][1]) /\ piece # None
            THEN handle_live_hit(s, cfg, piece, buf[1][3])
            ELSE s

RECURSIVE DrainHits(_, _, _, _, _)
DrainHits(s, cfg, order, buf, i) ==
    IF i > Len(buf) THEN s
    ELSE LET piece == FindPiece(cfg.mapping, order, buf[i][2], 1)
             s1 == IF IsNoteOn(buf[i][1]) /\ piece # None
                   THEN handle_live_hit(s, cfg, piece, buf[i][3])
                   ELSE s
         IN DrainHits(s1, cfg, order, buf, i + 1)

poll_midi(s, cfg, order, buf) ==
    IF s.midi_rx THEN DrainHits(s, cfg, order, buf, 1) ELSE s

----------------------------------------------------------------------------
(* TutorPane::ui, the part after poll_midi, in the order of the code *)

RegionStart(s) == IF s.loop_use_region THEN Min(s.loop_a, s.loop_b) ELSE 0

\* the body of both Play/Pause buttons up to the reset of loops_done
TogglePlay(s, cfg) ==
    IF s.playing THEN [s EXCEPT !.playing = FALSE]
    ELSE [s EXCEPT !.playing = TRUE,
                   !.pre_roll_active = TRUE,
                   !.pre_roll_remaining = cfg.tutor_pre_roll_beats * 1000,
                   !.next_click_beat = 0,
                   !.loops_done = 0]

\* Play/Pause button of the practice pane (main.rs 1197-1214)
PlayButton(s, cfg) ==
    LET s1 == TogglePlay(s, cfg)
    IN IF ~s1.playing THEN s1
       ELSE LET s2 == [s1 EXCEPT !.loop_total = IF s1.mode = "FreePlay" THEN U8Max
                                                ELSE cfg.practice_default_loop_count]
                s3 == IF s2.loop_use_region
                      THEN [s2 EXCEPT !.playhead = Min(s2.loop_a, s2.loop_b),
                                      !.elapsed_secs = 0]
                      ELSE s2
            IN [s3 EXCEPT !.review_active = FALSE]

\* Play/Pause button of the transport dock (main.rs 1551-1572)
TransportPlayButton(s, cfg) == TogglePlay(s, cfg)

\* "Use lesson tempo" pins the practice BPM to the first tempo event (main.rs 1218-1220)
LessonTempoPin(s, cfg) ==
    IF cfg.tutor_use_lesson_tempo THEN [s EXCEPT !.bpm = Lesson(s).default_tempo[1].bpm]
    ELSE s

\* Reset button (main.rs 1224)
ResetButton(s) == [s EXCEPT !.playhead = 0, !.loops_done = 0]

\* A/B loop controls without the swap
RegionControlsNoSwap(s, click) ==
    CASE click.kind = "region" -> [s EXCEPT !.loop_use_region = ~s.loop_use_region]
      [] click.kind = "drag_a" -> [s EXCEPT !.loop_a = click.arg]
      [] click.kind = "set_a"  -> [s EXCEPT !.loop_a = s.playhead]
      [] click.kind = "drag_b" -> [s EXCEPT !.loop_b = click.arg]
      [] click.kind = "set_b"  -> [s EXCEPT !.loop_b = s.playhead]
      [] OTHER -> s

\* A/B loop controls (main.rs 1243-1250): one edit, then the swap
RegionControls(s, click) ==
    LET s1 == CASE click.kind = "region" -> [s EXCEPT !.loop_use_region = ~s.loop_use_region]
                [] click.kind = "drag_a" -> [s EXCEPT !.loop_a = click.arg]
                [] click.kind = "set_a"  -> [s EXCEPT !.loop_a = s.playhead]
                [] click.kind = "drag_b" -> [s EXCEPT !.loop_b = click.arg]
                [] click.kind = "set_b"  -> [s EXCEPT !.loop_b = s.playhead]
                [] OTHER -> s
    IN IF s1.loop_use_region /\ s1.loop_b < s1.loop_a
       THEN [s1 EXCEPT !.loop_a = s1.loop_b, !.loop_b = s1.loop_a]
       ELSE s1

\* beats shown by the highway (main.rs 1341)
WindowSpan == 8

\* the End handle of the region on the highway ruler, held at pointer position
\* click.arg, in eighths of the window that starts two beats before the playhead
\* (main.rs 1342, 1346-1378); the handles exist only with the region in use
HandleDrag(s, click) ==
    IF click.kind = "handle_b" /\ s.loop_use_region
    THEN [s EXCEPT !.loop_b = s.playhead - 2 * BeatUnit + click.arg * BeatUnit]
    ELSE s

Metronome(cfg) == cfg.metronome_enabled /\ cfg.app_sounds

\* count-in clicks: one per second of the countdown (main.rs 1270-1273)
RECURSIVE PreRollClicks(_, _)
PreRollClicks(next, remaining) ==
    IF next < remaining THEN PreRollClicks(next + 1000, remaining) ELSE next

\* metronome clicks: one per beat reached (main.rs 1285-1288)
RECURSIVE BeatClicks(_, _)
BeatClicks(next, head) ==
    IF head >= next THEN BeatClicks(next + BeatUnit, head) ELSE next

\* a countdown in beats of the practice tempo instead of seconds
PreRollTickInBeats(s, cfg, dt) ==
    LET remaining == s.pre_roll_remaining - (dt * s.bpm) \div 60
    IN IF remaining <= 0
       THEN [s EXCEPT !.pre_roll_remaining = remaining, !.pre_roll_active = FALSE,
                      !.next_click_beat = 0]
       ELSE [s EXCEPT !.pre_roll_remaining = remaining]

\* a frame of the countdown (main.rs 1267-1276)
PreRollTick(s, cfg, dt) ==
    LET next == IF Metronome(cfg)
                THEN PreRollClicks(s.next_click_beat, s.pre_roll_remaining)
                ELSE s.next_click_beat
        remaining == s.pre_roll_remaining - dt
    IN IF remaining <= 0
       THEN [s EXCEPT !.pre_roll_remaining = remaining, !.pre_roll_active = FALSE,
                      !.next_click_beat = 0]
       ELSE [s EXCEPT !.pre_roll_remaining = remaining, !.next_click_beat = next]

\* the playhead of a playing frame (main.rs 1260-1266, 1278-1283)
MovePlayhead(s, cfg, dt) ==
    IF cfg.tutor_use_lesson_tempo
    THEN [s EXCEPT !.elapsed_secs = s.elapsed_secs + dt,
                   !.playhead = beat_at_time(Lesson(s).default_tempo, s.elapsed_secs + dt)[1]]
    ELSE [s EXCEPT !.playhead = s.playhead + dt * s.bpm]

\* the beat_window of missed detection (main.rs 1291-1294)
TickWindow(s, cfg) ==
    LET bpm_used == IF cfg.tutor_use_lesson_tempo
                    THEN bpm_at(Lesson(s).default_tempo, s.elapsed_secs)[1]
                    ELSE s.bpm
    IN WindowBeats(cfg.practice_match_window_pct, cfg.practice_match_cap_ms, bpm_used)

\* a detection that fires as soon as the playhead reaches the edge of the window
MissedDetectionInclusive(s, cfg) ==
    IF s.mode = "FreePlay" THEN s
    ELSE LET notation == Lesson(s).notation
             beat_window == TickWindow(s, cfg)
         IN [s EXCEPT !.statuses =
                [i \in DOMAIN s.statuses |->
                    IF i <= Len(notation) /\ s.statuses[i] = None
                       /\ notation[i].beat + beat_window <= s.playhead
                    THEN "Missed" ELSE s.statuses[i]]]

\* missed detection (main.rs 1295-1302)
MissedDetection(s, cfg) ==
    IF s.mode = "FreePlay" THEN s
    ELSE LET notation == Lesson(s).notation
             beat_window == TickWindow(s, cfg)
         IN [s EXCEPT !.statuses =
                [i \in DOMAIN s.statuses |->
                    IF i <= Len(notation) /\ s.statuses[i] = None
                       /\ notation[i].beat + beat_window < s.playhead
                    THEN "Missed" ELSE s.statuses[i]]]

\* end boundary of the pass (main.rs 1304)
EndBoundary(s) == IF s.loop_use_region THEN Max(s.loop_b, s.loop_a) ELSE s.end_beat

\* a restart that keeps the labels of the pass
LoopRestartKeepStatuses(s, cfg) ==
    LET s1 == [s EXCEPT !.playhead = RegionStart(s), !.elapsed_secs = 0,
                        !.next_click_beat = 0]
    IN IF cfg.practice_countdown_each_loop
       THEN [s1 EXCEPT !.pre_roll_active = TRUE,
                       !.pre_roll_remaining = cfg.tutor_pre_roll_beats * 1000]
       ELSE s1

\* the restart branch (main.rs 1309-1318)
LoopRestart(s, cfg) ==
    LET s1 == [s EXCEPT !.playhead = RegionStart(s), !.elapsed_secs = 0,
                        !.next_click_beat = 0]
        s2 == IF cfg.practice_countdown_each_loop
              THEN [s1 EXCEPT !.pre_roll_active = TRUE,
                              !.pre_roll_remaining = cfg.tutor_pre_roll_beats * 1000]
              ELSE s1
    IN [s2 EXCEPT !.statuses = [i \in DOMAIN s2.statuses |-> None]]

\* a stop that scores an empty hit log
StopAndReviewNoHits(s) ==
    [s EXCEPT !.playing = FALSE,
              !.analytics = <<score_with_spb(Lesson(s).notation, <<>>, s.bpm)>>,
              !.review_active = TRUE]

\* the stop branch (main.rs 1320-1331)
StopAndReview(s) ==
    [s EXCEPT !.playing = FALSE,
              !.analytics = <<score_with_spb(Lesson(s).notation, s.hits, s.bpm)>>,
              !.review_active = TRUE]

\* a boundary that stops one pass late
LoopBoundaryLate(s, cfg) ==
    IF s.playhead >= EndBoundary(s)
    THEN LET s1 == [s EXCEPT !.loops_done = Min(s.loops_done + 1, U8Max)]
         IN IF s1.loops_done <= s1.loop_total \/ s1.mode = "FreePlay"
            THEN LoopRestart(s1, cfg)
            ELSE StopAndReview(s1)
    ELSE s

\* a boundary that holds Free Play to the target of passes too
LoopBoundaryNoFreePlay(s, cfg) ==
    IF s.playhead >= EndBoundary(s)
    THEN LET s1 == [s EXCEPT !.loops_done = Min(s.loops_done + 1, U8Max)]
         IN IF s1.loops_done < s1.loop_total
            THEN LoopRestart(s1, cfg)
            ELSE StopAndReview(s1)
    ELSE s

\* looping logic at the end boundary (main.rs 1306-1333)
LoopBoundary(s, cfg) ==
    IF s.playhead >= EndBoundary(s)
    THEN LET s1 == [s EXCEPT !.loops_done = Min(s.loops_done + 1, U8Max)]
         IN IF s1.loops_done < s1.loop_total \/ s1.mode = "FreePlay"
            THEN LoopRestart(s1, cfg)
            ELSE StopAndReview(s1)
    ELSE s

\* a playing frame after the countdown (main.rs 1278-1333)
PlayingTick(s, cfg, dt) ==
    LET s1 == MovePlayhead(s, cfg, dt)
        s2 == IF Metronome(cfg)
              THEN [s1 EXCEPT !.next_click_beat = BeatClicks(s1.next_click_beat, s1.playhead)]
              ELSE s1
        s3 == MissedDetection(s2, cfg)
    IN LoopBoundary(s3, cfg)

\* an advance whose countdown frames run missed detection
AdvanceDetectingInCountIn(s, cfg, dt) ==
    IF ~s.playing THEN s
    ELSE IF s.pre_roll_active THEN MissedDetection(PreRollTick(s, cfg, dt), cfg)
    ELSE PlayingTick(s, cfg, dt)

\* "Advance playhead" (main.rs 1255-1338)
Advance(s, cfg, dt) ==
    IF ~s.playing THEN s
    ELSE IF s.pre_roll_active THEN PreRollTick(s, cfg, dt)
    ELSE PlayingTick(s, cfg, dt)

\* per-instrument counts of the review card: piece -> <<on, early, late, missed>>
\* (main.rs 1395-1409)
RECURSIVE PerPieceScan(_, _, _)
PerPieceScan(notation, st, i) ==
    IF i = 0 THEN [q \in {} |-> <<0, 0, 0, 0>>]
    ELSE LET m == PerPieceScan(notation, st, i - 1)
             p == notation[i].piece
             ent == IF p \in DOMAIN m THEN m[p] ELSE <<0, 0, 0, 0>>
             l == StatusGet(st, i)
             ent2 == CASE l = "OnTime" -> [ent EXCEPT ![1] = @ + 1]
                       [] l = "Early"  -> [ent EXCEPT ![2] = @ + 1]
                       [] l = "Late"   -> [ent EXCEPT ![3] = @ + 1]
                       [] l = "Missed" -> [ent EXCEPT ![4] = @ + 1]
                       [] OTHER -> ent
         IN [q \in DOMAIN m \cup {p} |-> IF q = p THEN ent2 ELSE m[q]]

ReviewSnapshot(s) ==
    [s EXCEPT !.per_piece_snapshot =
        IF s.review_active
        THEN <<PerPieceScan(Lesson(s).notation, s.statuses, Len(Lesson(s).notation))>>
        ELSE <<>>]

\* a Retry that keeps the captured hits of the run
RetryButtonKeepHits(s) ==
    [s EXCEPT !.playhead = RegionStart(s), !.elapsed_secs = 0,
              !.statuses = [i \in DOMAIN s.statuses |-> None],
              !.loops_done = 0, !.review_active = FALSE]

\* Retry button of the review card (main.rs 1436-1443)
RetryButton(s) ==
    [s EXCEPT !.playhead = RegionStart(s), !.elapsed_secs = 0,
              !.statuses = [i \in DOMAIN s.statuses |-> None],
              !.hits = <<>>, !.loops_done = 0, !.review_active = FALSE]

\* Close button of the review card (main.rs 1444)
CloseReviewButton(s) == [s EXCEPT !.review_active = FALSE]

\* "Score Performance" button (main.rs 1466-1474)
ScoreButton(s) ==
    [s EXCEPT !.analytics = <<score_with_spb(Lesson(s).notation, s.hits, s.bpm)>>]

\* "Close chart" (main.rs 1525)
CloseChart(s) ==
    [s EXCEPT !.session = 0, !.current_index = 0, !.completed = FALSE,
              !.hits = <<>>, !.analytics = <<>>]

Click(k, a) == [kind |-> k, arg |-> a]

\* the time the advance of this frame sees: the Play button sets last_tick to now
\* just before it
FrameDt(s, click, dt) == IF click.kind = "play" /\ ~s.playing THEN 0 ELSE dt

\* mode selector (main.rs 1185-1195)
ModeClick(s, click) == IF click.kind = "mode" THEN [s EXCEPT !.mode = click.arg] ELSE s

PlayClick(s, cfg, click) == IF click.kind = "play" THEN PlayButton(s, cfg) ELSE s

\* the tempo row: the lesson tempo pin, else the BPM slider (main.rs 1216-1223)
TempoClick(s, cfg, click) ==
    IF cfg.tutor_use_lesson_tempo THEN LessonTempoPin(s, cfg)
    ELSE IF click.kind = "bpm" THEN [s EXCEPT !.bpm = click.arg]
    ELSE s

ResetClick(s, click) == IF click.kind = "reset" THEN ResetButton(s) ELSE s

\* the controls that run before "Advance playhead", in the order of the code
BeforeAdvance(s, cfg, click) ==
    RegionControls(
        ResetClick(TempoClick(PlayClick(ModeClick(s, click), cfg, click), cfg, click),
                   click),
        click)

\* the buttons of the review card, shown while review_active (main.rs 1411-1446)
ReviewClick(s, click) ==
    IF s.review_active /\ click.kind = "retry" THEN RetryButton(s)
    ELSE IF s.review_active /\ click.kind = "close_review" THEN CloseReviewButton(s)
    ELSE s

ScoreClick(s, click) == IF click.kind = "score" THEN ScoreButton(s) ELSE s

\* "Simulate Hit" (main.rs 1523)
SimulateClick(s, cfg, click) ==
    IF click.kind = "simulate" THEN handle_live_hit(s, cfg, "Snare", SimVelocity) ELSE s

\* the chart chip: close, or load another chart (main.rs 1525-1539)
ChartClick(s, click) ==
    CASE click.kind = "close_chart" -> CloseChart(s)
      [] click.kind = "open" -> load_lesson(s, click.arg)
      [] OTHER -> s

\* TutorPane::ui after poll_midi, with a chart loaded (main.rs 1179-1487, 1523-1539)
ui_loaded(s, cfg, click, dt) ==
    ChartClick(
        SimulateClick(
            ScoreClick(
                ReviewClick(
                    ReviewSnapshot(
                        HandleDrag(
                            Advance(BeforeAdvance(s, cfg, click), cfg, FrameDt(s, click, dt)),
                            click)),
                    click),
                click),
            cfg, click),
        click)

\* TutorPane::ui without a chart: only the load buttons act (main.rs 1488-1522)
ui_empty(s, click) ==
    IF click.kind = "open"
    THEN load_lesson([s EXCEPT !.per_piece_snapshot = <<>>], click.arg)
    ELSE [s EXCEPT !.per_piece_snapshot = <<>>]

\* TutorPane::transport_ui (main.rs 1542-1599)
transport_ui(s, cfg, click) ==
    IF click.kind = "transport_play" THEN TransportPlayButton(s, cfg) ELSE s

\* one frame of the Practice tab after the MIDI poll: ui, then transport_ui
Frame(s, cfg, click, dt) ==
    transport_ui(IF s.session = 0 THEN ui_empty(s, click) ELSE ui_loaded(s, cfg, click, dt),
                 cfg, click)

----------------------------------------------------------------------------
(* Settings the behaviours start from.  Slider ranges of the settings pane:
   match window 2.5-25 %, on-time 2.5-20 %, match cap 20-150 ms, on-time cap
   10-100 ms, latency 1-100 ms, pre-roll 0-8, loop count 1-10. *)

Pieces == {"Snare", "Bass"}

\* at 150 BPM: match window 4 grid steps (25 % of a beat), on-time window 2 grid
\* steps (12.5 %), latency 1 grid step (25 ms); the millisecond caps are wider
BaseSettings ==
    [midi_selected |-> TRUE,
     mapping |-> [p \in Pieces |-> IF p = "Snare" THEN 38 ELSE 36],
     latency_ms |-> 25,
     tutor_pre_roll_beats |-> 0,
     tutor_use_lesson_tempo |-> FALSE,
     practice_match_window_pct |-> 250,
     practice_on_time_pct |-> 125,
     practice_match_cap_ms |-> 150,
     practice_on_time_cap_ms |-> 100,
     practice_countdown_each_loop |-> FALSE,
     practice_default_loop_count |-> 2,
     practice_tempo_scale_default |-> 100,
     metronome_enabled |-> FALSE,
     app_sounds |-> TRUE]

\* frame intervals, milliseconds: one and two grid steps at 150 BPM
Dts == {25, 50}

\* MIDI messages <<status, note, velocity>>: snare on (channel 10), bass on, snare off
Msgs == {<<153, 38, 100>>, <<144, 36, 100>>, <<128, 38, 0>>}

\* iteration orders of the mapping's HashMap
Orders == {<<"Snare", "Bass">>, <<"Bass", "Snare">>}

----------------------------------------------------------------------------
(* Steps *)

InitWith(cfgs) ==
    /\ settings \in cfgs
    /\ midi_q = <<>>
    /\ pc = "poll"
    /\ midi_rx = NewPane.midi_rx
    /\ session = NewPane.session
    /\ current_index = NewPane.current_index
    /\ completed = NewPane.completed
    /\ hits = NewPane.hits
    /\ analytics = NewPane.analytics
    /\ playing = NewPane.playing
    /\ bpm = NewPane.bpm
    /\ playhead = NewPane.playhead
    /\ next_click_beat = NewPane.next_click_beat
    /\ pre_roll_active = NewPane.pre_roll_active
    /\ pre_roll_remaining = NewPane.pre_roll_remaining
    /\ elapsed_secs = NewPane.elapsed_secs
    /\ statuses = NewPane.statuses
    /\ loop_total = NewPane.loop_total
    /\ loops_done = NewPane.loops_done
    /\ end_beat = NewPane.end_beat
    /\ mode = NewPane.mode
    /\ loop_use_region = NewPane.loop_use_region
    /\ loop_a = NewPane.loop_a
    /\ loop_b = NewPane.loop_b
    /\ review_active = NewPane.review_active
    /\ bpm_initialized_from_settings = NewPane.bpm_initialized_from_settings
    /\ per_piece_snapshot = NewPane.per_piece_snapshot
    /\ tempo_map = <<>>
    /\ ret = NoCall

\* the step to the pane r, within the bounds of the model: at most cap passes
\* counted and n hits kept
CommitKeeping(r, cap, n) ==
    /\ r.loops_done <= cap
    /\ Len(r.hits) <= n
    /\ Commit(r)

CommitBounded(r, cap) == CommitKeeping(r, cap, MaxHits)

\* the MIDI callback thread: tx.send of a 3-byte message (main.rs 2866-2869),
\* with at most n messages waiting
MidiSendUpTo(msgs, n) ==
    /\ midi_rx
    /\ Len(midi_q) < n
    /\ \E m \in msgs : midi_q' = Append(midi_q, m)
    /\ UNCHANGED <<settings, pc, midi_rx, session, current_index, completed, hits,
                   analytics, playing, bpm, playhead, next_click_beat, pre_roll_active,
                   pre_roll_remaining, elapsed_secs, statuses, loop_total, loops_done,
                   end_beat, mode, loop_use_region, loop_a, loop_b, review_active,
                   bpm_initialized_from_settings, per_piece_snapshot, tempo_map, ret>>

MidiSend(msgs) == MidiSendUpTo(msgs, MaxQueue)

\* start of DesktopApp::update on the Practice tab: sync_settings, then the
\* poll_midi call that opens TutorPane::ui
PollStepKeeping(n) ==
    /\ pc = "poll"
    /\ pc' = "ui"
    /\ midi_q' = IF settings.midi_selected THEN <<>> ELSE midi_q
    /\ \E order \in Orders :
         CommitKeeping(poll_midi(sync_settings(Pane, settings), settings, order, midi_q),
                       U8Max, n)
    /\ UNCHANGED <<settings, tempo_map, ret>>

PollStep == PollStepKeeping(MaxHits)

\* the rest of the frame with one click (or none) and the frame interval dt
UiStepKeeping(click, dt, cap, n) ==
    /\ pc = "ui"
    /\ pc' = "poll"
    /\ CommitKeeping(Frame(Pane, settings, click, dt), cap, n)
    /\ UNCHANGED <<settings, midi_q, tempo_map, ret>>

UiStep(click, dt, cap) == UiStepKeeping(click, dt, cap, MaxHits)

----------------------------------------------------------------------------
(* The matching specification: the MIDI callback, the poll, frames, Play/Pause,
   the mode selector, Reset, Retry and chart loads, on charts A and C at a fixed
   practice BPM.  A message sent while the rest of a frame runs is drained by the
   next poll exactly like one sent just after the frame, so the callback is let
   run between frames. *)

SpecSettings == {BaseSettings}

SpecCharts == {1, 3}

Init == InitWith(SpecSettings)

MidiCallback == pc = "poll" /\ MidiSend(Msgs)

PollMidi == PollStep

Tick == \E dt \in Dts : UiStep(Click("none", 0), dt, MaxPasses)

PlayPause == session # 0 /\ \E dt \in Dts : UiStep(Click("play", 0), dt, MaxPasses)

SelectMode ==
    /\ session # 0
    /\ \E m \in {"FreePlay", "Test"}, dt \in Dts : UiStep(Click("mode", m), dt, MaxPasses)

Reset == session # 0 /\ \E dt \in Dts : UiStep(Click("reset", 0), dt, MaxPasses)

Retry ==
    /\ session # 0 /\ review_active
    /\ \E dt \in Dts : UiStep(Click("retry", 0), dt, MaxPasses)

OpenChart == \E c \in SpecCharts, dt \in Dts : UiStep(Click("open", c), dt, MaxPasses)

Next ==
    \/ MidiCallback
    \/ PollMidi
    \/ Tick
    \/ PlayPause
    \/ SelectMode
    \/ Reset
    \/ Retry
    \/ OpenChart

Spec == Init /\ [][Next]_vars

----------------------------------------------------------------------------
(* The latency specification: the steps of the matching specification with the
   input latency at the top of its slider, 100 ms, which is 4 grid steps at
   150 BPM. *)

LatencySettings == {[BaseSettings EXCEPT !.latency_ms = 100]}

SpecLatency == InitWith(LatencySettings) /\ [][Next]_vars

----------------------------------------------------------------------------
(* Properties of the live matcher and of missed detection, checked under Spec *)

\* the notation of the loaded chart
Notation == Charts[session].notation

\* the poll about to run drains exactly one Note On that the mapping sends to piece p
OneStrike(p) ==
    /\ pc = "poll" /\ session # 0 /\ settings.midi_selected
    /\ Len(midi_q) = 1 /\ IsNoteOn(midi_q[1][1])
    /\ settings.mapping[p] = midi_q[1][2]

\* the latency compensated beat of that strike: the poll runs after sync_settings,
\* so it sees the practice BPM of the state the poll leaves
StrikeBeat == Max(playhead - settings.latency_ms * bpm', 0)

StrikeMatchWindow ==
    Min(settings.practice_match_window_pct * (BeatUnit \div 1000),
        settings.practice_match_cap_ms * bpm')

StrikeOnTimeWindow ==
    Min(settings.practice_on_time_pct * (BeatUnit \div 1000),
        settings.practice_on_time_cap_ms * bpm')

StrikeDist(i) == Abs(Notation[i].beat - StrikeBeat)

\* the qualifying candidates of a strike on piece p
Candidates(p) ==
    {i \in DOMAIN statuses :
        Notation[i].piece = p /\ statuses[i] = None /\ StrikeDist(i) < StrikeMatchWindow}

\* the nearest candidate, the first in notation order among equidistant ones
Nearest(p) ==
    CHOOSE i \in Candidates(p) :
        \A j \in Candidates(p) :
            StrikeDist(i) < StrikeDist(j) \/ (StrikeDist(i) = StrikeDist(j) /\ i <= j)

\* some labelled entry is back to None, or gone, after the step
SomeEntryCleared ==
    \E i \in DOMAIN statuses :
        statuses[i] # None /\ (i \notin DOMAIN statuses' \/ statuses'[i] = None)

\* a frame whose advance finds the playhead at or beyond the end of the chart and
\* leaves every entry None
RestartFrame ==
    /\ pc = "ui" /\ playing /\ ~pre_roll_active
    /\ \E dt \in Dts : playhead + dt * bpm >= end_beat
    /\ \A i \in DOMAIN statuses' : statuses'[i] = None

\* C1: once an entry of the status table is not None, no poll of live strikes
\* changes it, no step gives it another label, and it returns to None only in a
\* Retry, a chart load or a frame that restarts the loop (which clears every entry).
MatcherIdempotent ==
    [][/\ PollMidi => \A i \in DOMAIN statuses :
                        statuses[i] # None
                            => i \in DOMAIN statuses' /\ statuses'[i] = statuses[i]
       /\ \A i \in DOMAIN statuses \cap DOMAIN statuses' :
            statuses[i] # None => statuses'[i] \in {statuses[i], None}
       /\ SomeEntryCleared => Retry \/ OpenChart \/ RestartFrame]_vars

\* C1 witness: a snare strike waits in the channel while the playhead is a grid
\* step before the first notated snare, which an earlier strike has resolved
MatcherIdempotentWitness ==
    /\ session = 1 /\ playing /\ pc = "poll" /\ playhead = 5 * Grid
    /\ statuses[1] \in {"OnTime", "Late", "Early"} /\ Len(hits) = 1
    /\ midi_q = << <<153, 38, 100>> >>

\* C2: a live strike resolves, among the entries of its piece that are None and
\* nearer than the match window, the nearest one, the first in notation order when
\* two are equidistant, whatever the iteration order of the mapping; it changes no
\* other entry, and no entry when there is no candidate.
NearestNeighbour ==
    [][\A p \in Pieces :
         OneStrike(p) /\ PollMidi =>
            IF Candidates(p) = {} THEN statuses' = statuses
            ELSE /\ DOMAIN statuses' = DOMAIN statuses
                 /\ statuses'[Nearest(p)] # None
                 /\ \A j \in DOMAIN statuses \ {Nearest(p)} : statuses'[j] = statuses[j]]_vars

\* C2 witness: a strike at beat 3/16, equidistant from the snares notated at 6/16
\* and at 0, has resolved the one that comes first in the notation
NearestNeighbourWitness ==
    /\ session = 1 /\ pc = "ui" /\ Len(hits) = 1 /\ hits[1].beat = 3 * Grid
    /\ statuses = <<"Early", None>>

\* C3: the label a live strike writes is OnTime if |delta| < onTimeBeats, else Late
\* if delta > 0, else Early, with delta = hitBeat - expected.beat; a poll of live
\* strikes never writes Missed.
StrikeClassification ==
    [][/\ \A p \in Pieces :
            OneStrike(p) /\ PollMidi =>
                \A i \in DOMAIN statuses :
                    statuses'[i] # statuses[i] =>
                        statuses'[i] =
                            IF StrikeDist(i) < StrikeOnTimeWindow THEN "OnTime"
                            ELSE IF StrikeBeat - Notation[i].beat > 0 THEN "Late"
                            ELSE "Early"
       /\ PollMidi => \A i \in DOMAIN statuses' :
                        statuses'[i] = "Missed" => StatusGet(statuses, i) = "Missed"]_vars

\* C3 witness: a strike exactly onTimeBeats (2/16 beat) after the snare at beat 0
\* is labelled Late
StrikeClassificationWitness ==
    /\ session = 1 /\ pc = "ui" /\ Len(hits) = 1 /\ hits[1].beat = 2 * Grid
    /\ statuses[2] = "Late"

\* the clicks of the frames of Spec
SpecClicks ==
    {Click("none", 0), Click("play", 0), Click("reset", 0), Click("retry", 0)}
        \cup {Click("mode", m) : m \in {"FreePlay", "Test"}}
        \cup {Click("open", c) : c \in SpecCharts}

\* the match window of a frame at the fixed practice BPM
FrameMatchWindow ==
    Min(settings.practice_match_window_pct * (BeatUnit \div 1000),
        settings.practice_match_cap_ms * bpm)

\* the playhead a playing frame compares the notated beats with
FrameHead(click, dt) == (IF click.kind = "reset" THEN 0 ELSE playhead) + dt * bpm

\* C4: an entry becomes Missed only in a frame of a playing session, only if it was
\* None, and only if expected.beat + matchWindowBeats < playheadBeat of that frame.
MissedNeverEarly ==
    [][\A i \in DOMAIN statuses' :
         statuses'[i] = "Missed" /\ StatusGet(statuses, i) # "Missed" =>
            /\ pc = "ui" /\ session # 0 /\ playing
            /\ StatusGet(statuses, i) = None
            /\ \A click \in SpecClicks, dt \in Dts :
                 UiStep(click, dt, MaxPasses) =>
                    Notation[i].beat + FrameMatchWindow < FrameHead(click, dt)]_vars

\* C4 witness: in Test mode the snare at beat 0 is Missed when the playhead first
\* passes the 4/16 window, at 5/16
MissedNeverEarlyWitness ==
    /\ session = 1 /\ mode = "Test" /\ playing /\ playhead = 5 * Grid
    /\ statuses = <<None, "Missed">>

\* C9: a live strike without a qualifying candidate resolves no entry and is
\* appended to the captured hits.
UnmatchedStrikeCaptured ==
    [][\A p \in Pieces :
         OneStrike(p) /\ PollMidi /\ Candidates(p) = {} =>
            /\ statuses' = statuses
            /\ hits' = Append(hits, [beat |-> StrikeBeat, piece |-> p,
                                     velocity |-> midi_q[1][3]])]_vars

\* C10: while a chart is loaded the status table has one entry per notation entry.
StatusTableAligned == session # 0 => Len(statuses) = Len(Notation)

\* C10 witness: the one-note chart C has just been loaded over the review of the
\* two-note chart A (whose snare at 0 was Missed)
StatusTableAlignedWitness ==
    /\ session = 3 /\ Len(statuses) = 1
    /\ per_piece_snapshot # <<>> /\ per_piece_snapshot[1]["Snare"][4] = 1

----------------------------------------------------------------------------
(* The loop specification: chart D at 60 BPM with a one beat count-in, both
   Play/Pause buttons, the mode selector, the A/B region (A dragged to beat 2, B to
   beat 6), Retry, chart loads and snare strikes. *)

LoopSettings ==
    {[BaseSettings EXCEPT !.tutor_pre_roll_beats = 1]}

\* frame intervals, milliseconds: one and two beats at 60 BPM
LoopDts == {1000, 2000}

LoopMsgs == {<<153, 38, 100>>}

LoopA == 2 * BeatUnit
LoopB == 6 * BeatUnit

LoopInit == InitWith(LoopSettings)

LoopMidiCallback == pc = "poll" /\ MidiSend(LoopMsgs)

LoopTickOf(dt) == UiStep(Click("none", 0), dt, MaxPasses)

LoopTick == \E dt \in LoopDts : LoopTickOf(dt)

LoopPlayPause == session # 0 /\ \E dt \in LoopDts : UiStep(Click("play", 0), dt, MaxPasses)

LoopTransportPlay ==
    session # 0 /\ \E dt \in LoopDts : UiStep(Click("transport_play", 0), dt, MaxPasses)

LoopSelectMode ==
    /\ session # 0
    /\ \E m \in {"FreePlay", "Test"}, dt \in LoopDts : UiStep(Click("mode", m), dt, MaxPasses)

LoopToggleRegion ==
    session # 0 /\ \E dt \in LoopDts : UiStep(Click("region", 0), dt, MaxPasses)

LoopDragA == session # 0 /\ \E dt \in LoopDts : UiStep(Click("drag_a", LoopA), dt, MaxPasses)

LoopDragB == session # 0 /\ \E dt \in LoopDts : UiStep(Click("drag_b", LoopB), dt, MaxPasses)

LoopRetry ==
    /\ session # 0 /\ review_active
    /\ \E dt \in LoopDts : UiStep(Click("retry", 0), dt, MaxPasses)

LoopOpenChart == \E dt \in LoopDts : UiStep(Click("open", 4), dt, MaxPasses)

\* the End handle dragged on the highway to beat 0
LoopDragHandle ==
    /\ session # 0 /\ loop_use_region
    /\ \E at \in 0..WindowSpan, dt \in LoopDts :
         UiStep(Click("handle_b", at), dt, MaxPasses) /\ loop_b' = 0

LoopNext ==
    \/ LoopMidiCallback
    \/ PollMidi
    \/ LoopTick
    \/ LoopPlayPause
    \/ LoopTransportPlay
    \/ LoopSelectMode
    \/ LoopToggleRegion
    \/ LoopDragA
    \/ LoopDragB
    \/ LoopRetry
    \/ LoopOpenChart
    \/ LoopDragHandle

SpecLoop == LoopInit /\ [][LoopNext]_vars

----------------------------------------------------------------------------
(* The pass counting specification: chart D without a count-in and without a MIDI
   device, frames up to the width of the pass counter, Play/Pause, the mode
   selector and the A/B region. *)

\* frame interval, milliseconds: three beats at 60 BPM, which reaches the end of the
\* chart (beat 4) and of the region from beat 2 to beat 6 beyond them, and the end
\* of a region from 0 to 6 exactly
PassDts == {3000}

PassSettings ==
    {[BaseSettings EXCEPT !.midi_selected = FALSE]}

PassInit == InitWith(PassSettings)

PassTickOf(dt) == UiStep(Click("none", 0), dt, U8Max)

PassTick == \E dt \in PassDts : PassTickOf(dt)

PassPlayPause == session # 0 /\ \E dt \in PassDts : UiStep(Click("play", 0), dt, U8Max)

PassSelectMode ==
    /\ session # 0
    /\ \E m \in {"FreePlay", "Test"}, dt \in PassDts : UiStep(Click("mode", m), dt, U8Max)

PassToggleRegion ==
    session # 0 /\ \E dt \in PassDts : UiStep(Click("region", 0), dt, U8Max)

PassDragA == session # 0 /\ \E dt \in PassDts : UiStep(Click("drag_a", LoopA), dt, U8Max)

PassDragB == session # 0 /\ \E dt \in PassDts : UiStep(Click("drag_b", LoopB), dt, U8Max)

PassOpenChart == \E dt \in PassDts : UiStep(Click("open", 4), dt, U8Max)

PassReset == session # 0 /\ \E dt \in PassDts : UiStep(Click("reset", 0), dt, U8Max)

PassNext ==
    \/ PollMidi
    \/ PassTick
    \/ PassPlayPause
    \/ PassSelectMode
    \/ PassToggleRegion
    \/ PassDragA
    \/ PassDragB
    \/ PassOpenChart
    \/ PassReset

SpecPasses == PassInit /\ [][PassNext]_vars

----------------------------------------------------------------------------
(* The lesson tempo specification: chart B, whose tempo doubles from 150 to 300
   BPM after 100 ms, played with "Use lesson tempo", a count-in of one beat and a
   match cap of 20 ms (the low end of its slider), so that the millisecond cap and
   not the percentage sets the match window: 0.05 beat at 150 BPM, 0.1 beat at
   300 BPM. *)

LessonSettings ==
    {[BaseSettings EXCEPT !.tutor_use_lesson_tempo = TRUE, !.tutor_pre_roll_beats = 1,
                          !.practice_match_cap_ms = 20]}

\* frame interval, milliseconds: the tempo changes at the end of the second frame
LessonDts == {50}

LessonMidiCallback == pc = "poll" /\ MidiSend(Msgs)

LessonTick == \E dt \in LessonDts : UiStep(Click("none", 0), dt, MaxPasses)

LessonPlayPause ==
    session # 0 /\ \E dt \in LessonDts : UiStep(Click("play", 0), dt, MaxPasses)

LessonSelectMode ==
    /\ session # 0
    /\ \E m \in {"FreePlay", "Test"}, dt \in LessonDts :
         UiStep(Click("mode", m), dt, MaxPasses)

LessonOpenChart == \E dt \in LessonDts : UiStep(Click("open", 2), dt, MaxPasses)

LessonNext ==
    \/ LessonMidiCallback
    \/ PollMidi
    \/ LessonTick
    \/ LessonPlayPause
    \/ LessonSelectMode
    \/ LessonOpenChart

SpecLesson == InitWith(LessonSettings) /\ [][LessonNext]_vars

\* the two halves of a frame as seen on pc: PollMidi is the only step from "poll"
\* to "ui", and the steps from "ui" to "poll" are the frames of LessonNext
FramePoll == pc = "poll" /\ pc' = "ui"

FrameRest == pc = "ui" /\ pc' = "poll"

\* frames keep coming: DesktopApp::update runs the poll and then the rest of the
\* frame, and a playing pane requests the next repaint (main.rs 1337).  A
\* behaviour that stops at the bound on the captured hits or on the passes is
\* not a behaviour of the program, and is not fair.
FairSpecLesson ==
    /\ SpecLesson
    /\ WF_pc(FramePoll)
    /\ WF_pc(FrameRest)

----------------------------------------------------------------------------
(* The unattended run specification: chart D at 60 BPM and the empty chart E,
   with a count-in of one beat, with and without "Countdown each loop" and "Use
   lesson tempo", without a MIDI device.  The user loads a chart, selects the
   mode and presses Play only while the session is not playing: a playing
   session gets frames and no input. *)

RunSettings ==
    {[BaseSettings EXCEPT !.midi_selected = FALSE, !.tutor_pre_roll_beats = 1,
                          !.practice_countdown_each_loop = c,
                          !.tutor_use_lesson_tempo = l] : c, l \in BOOLEAN}

\* frame intervals, milliseconds: one and three beats at 60 BPM
RunDts == {1000, 3000}

RunTick == \E dt \in RunDts : UiStep(Click("none", 0), dt, U8Max)

RunPlay ==
    session # 0 /\ ~playing /\ \E dt \in RunDts : UiStep(Click("play", 0), dt, U8Max)

RunSelectMode ==
    /\ session # 0 /\ ~playing
    /\ \E m \in {"FreePlay", "Test"}, dt \in RunDts : UiStep(Click("mode", m), dt, U8Max)

RunOpenChart ==
    ~playing /\ \E c \in {4, 5}, dt \in RunDts : UiStep(Click("open", c), dt, U8Max)

RunNext ==
    \/ PollMidi
    \/ RunTick
    \/ RunPlay
    \/ RunSelectMode
    \/ RunOpenChart

SpecRun == InitWith(RunSettings) /\ [][RunNext]_vars

\* frames keep coming (main.rs 1337): in a playing session the only step from
\* "ui" to "poll" is RunTick, a frame of positive duration without input
FairSpecRun ==
    /\ SpecRun
    /\ WF_pc(FramePoll)
    /\ WF_pc(FrameRest)

----------------------------------------------------------------------------
(* The metronome specification: chart D at 60 BPM with the metronome on and a
   count-in of two beats, at a fixed practice BPM and with "Use lesson tempo",
   without a MIDI device: one chart load, frames, Play/Pause, the mode selector
   and the A/B region (A dragged to beat 2, B to beat 6). *)

MetroSettings ==
    {[BaseSettings EXCEPT !.midi_selected = FALSE, !.metronome_enabled = TRUE,
                          !.tutor_pre_roll_beats = 2, !.tutor_use_lesson_tempo = l] :
        l \in BOOLEAN}

\* frame intervals, milliseconds: half a beat and one beat at 60 BPM
MetroDts == {500, 1000}

MetroTick == \E dt \in MetroDts : UiStep(Click("none", 0), dt, MaxPasses)

MetroPlayPause ==
    session # 0 /\ \E dt \in MetroDts : UiStep(Click("play", 0), dt, MaxPasses)

MetroSelectMode ==
    /\ session # 0
    /\ \E m \in {"FreePlay", "Test"}, dt \in MetroDts :
         UiStep(Click("mode", m), dt, MaxPasses)

MetroToggleRegion ==
    session # 0 /\ \E dt \in MetroDts : UiStep(Click("region", 0), dt, MaxPasses)

MetroDragA ==
    session # 0 /\ \E dt \in MetroDts : UiStep(Click("drag_a", LoopA), dt, MaxPasses)

MetroDragB ==
    session # 0 /\ \E dt \in MetroDts : UiStep(Click("drag_b", LoopB), dt, MaxPasses)

\* the chart is loaded once
MetroOpenChart ==
    session = 0 /\ \E dt \in MetroDts : UiStep(Click("open", 4), dt, MaxPasses)

MetroNext ==
    \/ PollMidi
    \/ MetroTick
    \/ MetroPlayPause
    \/ MetroSelectMode
    \/ MetroToggleRegion
    \/ MetroDragA
    \/ MetroDragB
    \/ MetroOpenChart

SpecMetronome == InitWith(MetroSettings) /\ [][MetroNext]_vars

----------------------------------------------------------------------------
(* Properties of the loop boundary and of the transport, checked under SpecPasses
   and SpecLoop *)

\* the chart's maximum notated beat
ChartEnd ==
    IF Notation = <<>> THEN 0
    ELSE CHOOSE b \in {Notation[i].beat : i \in DOMAIN Notation} :
            \A i \in DOMAIN Notation : Notation[i].beat <= b

\* the end boundary of a pass: the region end with an A/B region, else the chart end
Boundary == IF loop_use_region THEN Max(loop_a, loop_b) ELSE ChartEnd

\* the start of a pass
RegionBegin == IF loop_use_region THEN Min(loop_a, loop_b) ELSE 0

\* a frame of dt milliseconds without user input finds the playhead at or beyond
\* the boundary
Crossed(dt) ==
    /\ session # 0 /\ playing /\ ~pre_roll_active
    /\ playhead + dt * bpm >= Boundary

\* the pass counter after one more pass: a u8 that saturates
PassesAfter == IF loops_done < U8Max THEN loops_done + 1 ELSE U8Max

\* the crossing ends the run: Test mode with the target reached
FinalCrossing(dt) == Crossed(dt) /\ mode = "Test" /\ PassesAfter >= loop_total

Restarting(dt) == Crossed(dt) /\ ~FinalCrossing(dt)

\* C6: a frame that restarts the loop leaves every entry None; a frame without user
\* input that does not restart, a poll and the MIDI callback clear no entry, so the
\* final crossing keeps the labels of the last pass; with a target of two passes a
\* Test run restarts only from its first pass.
RestartClearsStatuses ==
    [][/\ \A dt \in LoopDts :
            LoopTickOf(dt) =>
                /\ Restarting(dt) => \A i \in DOMAIN statuses' : statuses'[i] = None
                /\ ~Restarting(dt) =>
                        \A i \in DOMAIN statuses :
                            statuses[i] # None => statuses'[i] = statuses[i]
                /\ Restarting(dt) /\ mode = "Test"
                        => loops_done = 0 /\ loops_done' = 1
       /\ PollMidi \/ LoopMidiCallback =>
            \A i \in DOMAIN statuses : statuses[i] # None => statuses'[i] = statuses[i]]_vars

\* C6 witness: a Test run has stopped after its second pass and the snare still
\* carries the label a strike gave it in that pass
RestartClearsStatusesWitness ==
    /\ session = 4 /\ mode = "Test" /\ review_active /\ ~playing /\ loops_done = 2
    /\ statuses[1] = "OnTime"

\* C7: a step that starts playback, through either Play button, puts the playhead
\* at the start of the region (0 without a region), zeroes the elapsed time and the
\* pass counter, and enters the count-in with the configured length.
TransportStartResets ==
    [][(LoopPlayPause \/ LoopTransportPlay) /\ ~playing /\ playing' =>
         /\ playhead' = RegionBegin
         /\ elapsed_secs' = 0
         /\ loops_done' = 0
         /\ pre_roll_active'
         /\ pre_roll_remaining' = settings.tutor_pre_roll_beats * 1000]_vars

\* positional batch score of the captured hits after the step
PairDelta(i) == hits'[i].beat - Notation[i].beat

MatchedPairs ==
    {i \in 1..Min(Len(Notation), Len(hits')) : Abs(PairDelta(i)) < BatchThresholdMs * bpm'}

BatchReport ==
    [accuracy |-> <<Cardinality(MatchedPairs), Len(Notation)>>,
     early_hits |-> Cardinality({i \in MatchedPairs : PairDelta(i) < 0}),
     late_hits |-> Cardinality({i \in MatchedPairs : PairDelta(i) > 0})]

\* per-piece counts of the labels after the step: on-time, early, late, missed
LabelCount(p, l) ==
    Cardinality({i \in DOMAIN Notation : Notation[i].piece = p /\ statuses'[i] = l})

PieceCounts ==
    [p \in {Notation[i].piece : i \in DOMAIN Notation} |->
        <<LabelCount(p, "OnTime"), LabelCount(p, "Early"), LabelCount(p, "Late"),
          LabelCount(p, "Missed")>>]

\* C8: the frame in which the final Test pass completes stops playback, scores the
\* captured hits and exposes the review with the per-piece counts of the status
\* table; a frame of a stopped session does not move the playhead.
ReviewOnCompletion ==
    [][\A dt \in LoopDts :
         LoopTickOf(dt) =>
            /\ FinalCrossing(dt) =>
                    /\ ~playing' /\ review_active'
                    /\ hits' = hits
                    /\ analytics' = <<BatchReport>>
                    /\ per_piece_snapshot' = <<PieceCounts>>
            /\ ~playing => ~playing' /\ playhead' = playhead]_vars

\* C8 witness: a stopped run whose report counts the early snare strike as matched
\* and whose review counts the bass drum as Missed
ReviewOnCompletionWitness ==
    /\ session = 4 /\ review_active /\ ~playing /\ Len(hits) = 1
    /\ analytics = <<[accuracy |-> <<1, 2>>, early_hits |-> 1, late_hits |-> 0]>>
    /\ per_piece_snapshot # <<>> /\ per_piece_snapshot[1]["Bass"][4] = 1

----------------------------------------------------------------------------
(* The mapping specification: chart D at 60 BPM with the mapping wizard of the
   settings pane, which binds the selected piece to the note of the next Note On
   (SettingsPane::mapping_wizard_ui, self.mapping.insert(piece, note)) and so can
   bind one note to two pieces; up to MapQueue messages wait for one poll. *)

MapQueue == 2

MapInit == InitWith({BaseSettings})

MapMidiCallback == pc = "poll" /\ MidiSendUpTo(Msgs, MapQueue)

MapTick == \E dt \in LoopDts : UiStep(Click("none", 0), dt, MaxPasses)

MapPlayPause == session # 0 /\ \E dt \in LoopDts : UiStep(Click("play", 0), dt, MaxPasses)

MapOpenChart == \E dt \in LoopDts : UiStep(Click("open", 4), dt, MaxPasses)

MapWizardLearn ==
    /\ pc = "poll"
    /\ \E piece \in Pieces, note \in {settings.mapping[p] : p \in Pieces} :
         /\ settings.mapping[piece] # note
         /\ settings' = [settings EXCEPT !.mapping[piece] = note]
    /\ UNCHANGED <<midi_q, pc, midi_rx, session, current_index, completed, hits,
                   analytics, playing, bpm, playhead, next_click_beat, pre_roll_active,
                   pre_roll_remaining, elapsed_secs, statuses, loop_total, loops_done,
                   end_beat, mode, loop_use_region, loop_a, loop_b, review_active,
                   bpm_initialized_from_settings, per_piece_snapshot, tempo_map, ret>>

MapNext ==
    \/ MapMidiCallback
    \/ PollMidi
    \/ MapTick
    \/ MapPlayPause
    \/ MapOpenChart
    \/ MapWizardLearn

SpecMapping == MapInit /\ [][MapNext]_vars

\* the status table a poll leaves when the mapping is iterated in the given order
StatusesFor(order) ==
    poll_midi(sync_settings(Pane, settings), settings, order, midi_q).statuses

\* C11: for a given pane state, configuration (mapping included) and sequence of
\* waiting messages, a poll leaves the same status table whatever order the
\* mapping's HashMap is iterated in, the strikes being handled in arrival order.
StrikeProcessingDeterministic ==
    [][PollMidi => \A order \in Orders : statuses' = StatusesFor(order)]_vars

----------------------------------------------------------------------------
(* The drain specification: chart B at 150 BPM in Free Play, loaded once and
   started without a pause, with up to MapQueue messages waiting for one poll and
   up to MaxDrained hits kept, so that one poll can match two strikes. *)

MaxDrained == 2

\* frame interval, milliseconds: one grid step at 150 BPM
DrainDts == {25}

\* snare on (channel 10) and bass on
DrainMsgs == {<<153, 38, 100>>, <<144, 36, 100>>}

DrainMidiCallback == pc = "poll" /\ MidiSendUpTo(DrainMsgs, MapQueue)

DrainPoll == PollStepKeeping(MaxDrained)

DrainTick == \E dt \in DrainDts : UiStepKeeping(Click("none", 0), dt, MaxPasses, MaxDrained)

\* Play is pressed on a session that is not playing
DrainPlayPause ==
    /\ session # 0 /\ ~playing
    /\ \E dt \in DrainDts : UiStepKeeping(Click("play", 0), dt, MaxPasses, MaxDrained)

\* the chart is loaded once
DrainOpenChart ==
    session = 0 /\ \E dt \in DrainDts : UiStepKeeping(Click("open", 2), dt, MaxPasses, MaxDrained)

DrainNext ==
    \/ DrainMidiCallback
    \/ DrainPoll
    \/ DrainTick
    \/ DrainPlayPause
    \/ DrainOpenChart

SpecDrain == Init /\ [][DrainNext]_vars

----------------------------------------------------------------------------
(* The scoring specification: one call of ScoringEngine::score_with_spb or
   ScoringEngine::score on a lesson and a hit log drawn from the sets below. *)

MaxScoreNotes == 2
MaxScoreHits == 3

SeqsUpTo(S, n) == UNION {[1..k -> S] : k \in 0..n}

\* expected events: a snare at beat 0 and a bass drum at beat 1
ScoreNotations == SeqsUpTo({Ev(0, "Snare"), Ev(BeatUnit, "Bass")}, MaxScoreNotes)

\* hits at 0, 0.05, 0.1, 0.25 and 0.95 beat, on either piece: 0.05 beat is 50 ms at
\* 60 BPM and 0.1 beat is 50 ms at 120 BPM
ScoreHitLogs ==
    SeqsUpTo({[beat |-> b, piece |-> p, velocity |-> SimVelocity] :
                 b \in {0, 3000, 6000, 15000, 57000}, p \in Pieces}, MaxScoreHits)

PaneVars == <<settings, midi_q, pc, midi_rx, session, current_index, completed, hits,
              analytics, playing, bpm, playhead, next_click_beat, pre_roll_active,
              pre_roll_remaining, elapsed_secs, statuses, loop_total, loops_done,
              end_beat, mode, loop_use_region, loop_a, loop_b, review_active,
              bpm_initialized_from_settings, per_piece_snapshot>>

\* no call made yet; the pane is as constructed and takes no step
CrateInit == InitWith({BaseSettings})

ScoreWithSpb ==
    /\ ret = NoCall
    /\ \E n \in ScoreNotations, h \in ScoreHitLogs, b \in {60, 120} :
         ret' = [op |-> "score_with_spb", notation |-> n, hits |-> h, bpm |-> b,
                 value |-> score_with_spb(n, h, b)]
    /\ UNCHANGED <<PaneVars, tempo_map>>

Score ==
    /\ ret = NoCall
    /\ \E n \in ScoreNotations, h \in ScoreHitLogs :
         ret' = [op |-> "score", notation |-> n, hits |-> h,
                 value |-> score(n, h)]
    /\ UNCHANGED <<PaneVars, tempo_map>>

\* reports applied in a row to one PracticeStatistics
MaxReports == 3

\* update_statistics on the statistics of a new lesson, then on what the previous
\* update left; the reports have accuracy 0, 0.5, 0.9, 0.95 and 1
UpdateStatistics ==
    /\ \/ ret = NoCall
       \/ ret.op = "update_statistics" /\ ret.calls < MaxReports
    /\ \E a \in {<<0, 1>>, <<1, 2>>, <<9, 10>>, <<19, 20>>, <<1, 1>>} :
         LET stats == IF ret = NoCall THEN PracticeStatistics_new ELSE ret.value
         IN ret' = [op |-> "update_statistics", stats |-> stats, accuracy |-> a,
                    calls |-> IF ret = NoCall THEN 1 ELSE ret.calls + 1,
                    value |-> update_statistics(stats, a)]
    /\ UNCHANGED <<PaneVars, tempo_map>>

\* register_hit calls made in a row on one SessionState
MaxRegistered == 4

\* SessionState::new on one of the charts (crates/tutor/src/session.rs 20-27)
SessionStateNew ==
    /\ ret = NoCall
    /\ \E c \in DOMAIN Charts :
         ret' = [op |-> "SessionState::new", calls |-> 0,
                 state |-> [session |-> c, current_index |-> 0, completed |-> FALSE]]
    /\ UNCHANGED <<PaneVars, tempo_map>>

\* register_hit with a hit on either piece, on the state the last call left
RegisterHit ==
    /\ ret.op \in {"SessionState::new", "register_hit"}
    /\ ret.calls < MaxRegistered
    /\ \E p \in Pieces :
         ret' = [op |-> "register_hit", calls |-> ret.calls + 1, before |-> ret.state,
                 piece |-> p, state |-> register_hit(ret.state, p)]
    /\ UNCHANGED <<PaneVars, tempo_map>>

ScoreNext == ScoreWithSpb \/ Score \/ UpdateStatistics \/ SessionStateNew \/ RegisterHit

SpecScoring == CrateInit /\ [][ScoreNext]_vars

\* pairs i of the zip whose hit is less than 50 ms from the expected event
PositionalMatches ==
    {i \in 1..Min(Len(ret.notation), Len(ret.hits)) :
        Abs(ret.hits[i].beat - ret.notation[i].beat) < 50 * ret.bpm}

\* C12: score_with_spb compares the i-th expected event with the i-th hit only,
\* whatever the pieces and whatever hits lie beyond the notation; a pair is
\* matched iff |delta| is below 50 ms, early and late are counted among the
\* matched pairs, accuracy is matched / notation.len(), within [0, 1], and
\* early + late <= matched.
BatchScoringPositional ==
    (ret.op = "score_with_spb" /\ Len(ret.notation) > 0) =>
        LET early == {i \in PositionalMatches : ret.hits[i].beat < ret.notation[i].beat}
            late == {i \in PositionalMatches : ret.hits[i].beat > ret.notation[i].beat}
        IN /\ ret.value.accuracy = <<Cardinality(PositionalMatches), Len(ret.notation)>>
           /\ ret.value.early_hits = Cardinality(early)
           /\ ret.value.late_hits = Cardinality(late)
           /\ 0 <= ret.value.accuracy[1] /\ ret.value.accuracy[1] <= ret.value.accuracy[2]
           /\ ret.value.early_hits + ret.value.late_hits <= ret.value.accuracy[1]

\* two expected events and three hits: the first hit exactly 50 ms late (not
\* matched), the second early, matched and on the other piece, the third ignored
BatchScoringPositionalWitness ==
    /\ ret.op = "score_with_spb"
    /\ Len(ret.notation) = 2 /\ Len(ret.hits) = 3
    /\ ret.hits[1].beat - ret.notation[1].beat = 50 * ret.bpm
    /\ ret.hits[2].beat < ret.notation[2].beat
    /\ ret.hits[2].piece # ret.notation[2].piece
    /\ ret.value = [accuracy |-> <<1, 2>>, early_hits |-> 1, late_hits |-> 0]

\* C13: on an empty notation score and score_with_spb return the empty report
\* (accuracy 0, early 0, late 0) for any hit log, with no division by zero.
EmptyChartReport ==
    (ret.op \in {"score", "score_with_spb"} /\ Len(ret.notation) = 0) =>
        ret.value = [accuracy |-> <<0, 1>>, early_hits |-> 0, late_hits |-> 0]

\* score was called on an empty notation with three hits
EmptyChartReportWitness ==
    /\ ret.op = "score"
    /\ Len(ret.notation) = 0 /\ Len(ret.hits) = 3
    /\ ret.value.accuracy = <<0, 1>>

----------------------------------------------------------------------------
(* The tempo specification: a caller of crates/domain/src/tempo.rs that either
   calls TempoEvent::new once, or obtains a TempoMap (TempoMap::new on a list of
   events, TempoMap::constant, TempoMap::default()) and then queries it. *)

MaxEvents == 3

\* events handed to TempoMap::new: two tempo changes at 10 s, and three values
\* TempoEvent::new refuses (5 BPM, a 3/5 signature, a negative time)
EventPool ==
    {TempoEvent(0, 120, <<4, 4>>), TempoEvent(10000, 90, <<3, 4>>),
     TempoEvent(10000, 200, <<6, 8>>), TempoEvent(0, 5, <<4, 4>>),
     TempoEvent(5000, 120, <<3, 5>>), TempoEvent(-1, 120, <<4, 4>>)}

\* query times up to 1000 s, far beyond the last event
QueryTimes == {0, 5000, 10000, 12000, 1000000}

\* the caller keeps the map of an Ok result and nothing of an Err
Obtained(result) == IF result.ok THEN <<result.value>> ELSE <<>>

CallTempoEventNew ==
    /\ ret = NoCall
    /\ \E t \in {-1, 0, 10000}, b \in {5, 9, 10, 120, 400, 401},
          sig \in {<<4, 4>>, <<3, 4>>, <<6, 8>>, <<1, 128>>,
                   <<3, 5>>, <<4, 3>>, <<0, 4>>, <<4, 0>>} :
         ret' = [op |-> "TempoEvent::new", time |-> t, bpm |-> b, signature |-> sig,
                 value |-> TempoEvent_new(t, b, sig)]
    /\ UNCHANGED <<PaneVars, tempo_map>>

CallTempoMapNew ==
    /\ ret = NoCall
    /\ \E events \in SeqsUpTo(EventPool, MaxEvents) :
         /\ ret' = [op |-> "TempoMap::new", events |-> events,
                    value |-> TempoMap_new(events)]
         /\ tempo_map' = Obtained(TempoMap_new(events))
    /\ UNCHANGED PaneVars

CallTempoMapConstant ==
    /\ ret = NoCall
    /\ \E b \in {5, 90, 120} :
         /\ ret' = [op |-> "TempoMap::constant", bpm |-> b, value |-> TempoMap_constant(b)]
         /\ tempo_map' = Obtained(TempoMap_constant(b))
    /\ UNCHANGED PaneVars

CallTempoMapDefault ==
    /\ ret = NoCall
    /\ ret' = [op |-> "TempoMap::default", value |-> TempoMap_default]
    /\ tempo_map' = <<TempoMap_default>>
    /\ UNCHANGED PaneVars

CallBpmAt ==
    /\ tempo_map # <<>>
    /\ \E t \in QueryTimes :
         ret' = [op |-> "bpm_at", time |-> t, value |-> bpm_at(tempo_map[1], t)]
    /\ UNCHANGED <<PaneVars, tempo_map>>

CallTimeSignatureAt ==
    /\ tempo_map # <<>>
    /\ \E t \in QueryTimes :
         ret' = [op |-> "time_signature_at", time |-> t,
                 value |-> time_signature_at(tempo_map[1], t)]
    /\ UNCHANGED <<PaneVars, tempo_map>>

CallBeatAtTime ==
    /\ tempo_map # <<>>
    /\ \E t \in QueryTimes :
         ret' = [op |-> "beat_at_time", time |-> t, value |-> beat_at_time(tempo_map[1], t)]
    /\ UNCHANGED <<PaneVars, tempo_map>>

\* beat_at_time(duration_between_beats(0, b).as_seconds_f64()) for b = 0, 1/16,
\* 1/3, 1, 2.5 and 30 beats; 30 beats end after the tempo changes of EventPool
CallRoundTrip ==
    /\ tempo_map # <<>>
    /\ \E b \in {0, Grid, BeatUnit \div 3, BeatUnit, 5 * (BeatUnit \div 2),
                 30 * BeatUnit} : \E d \in duration_between_beats(tempo_map[1], 0, b) :
         ret' = [op |-> "round_trip", beat |-> b, duration |-> d,
                 value |-> IF d = Panic THEN Panic
                           ELSE Returned(beat_at_duration(tempo_map[1], d[1]))]
    /\ UNCHANGED <<PaneVars, tempo_map>>

TempoNext ==
    \/ CallTempoEventNew
    \/ CallTempoMapNew
    \/ CallTempoMapConstant
    \/ CallTempoMapDefault
    \/ CallBpmAt
    \/ CallTimeSignatureAt
    \/ CallBeatAtTime
    \/ CallRoundTrip

SpecTempo == CrateInit /\ [][TempoNext]_vars

----------------------------------------------------------------------------
(* Claims about TempoEvent and TempoMap *)

\* the values TempoEvent::new is said to accept
ValidEvent(e) ==
    /\ e.time >= 0
    /\ 10 <= e.bpm /\ e.bpm <= 400
    /\ e.signature[1] # 0
    /\ \E k \in 0..7 : e.signature[2] = 2 ^ k

Ascending(events) ==
    \A i, j \in 1..Len(events) : i < j => events[i].time <= events[j].time

\* a map as TempoMap::new builds it from valid events
ValidMap(events) ==
    /\ Len(events) > 0
    /\ events[1].time = 0
    /\ Ascending(events)
    /\ \A i \in 1..Len(events) : ValidEvent(events[i])

\* C14: TempoEvent::new fails with a Validation error exactly when the time is
\* negative, the bpm is outside [10, 400], the numerator is 0 or the denominator
\* is not a power of two; otherwise it returns the event with the values given.
TempoEventValidation ==
    ret.op = "TempoEvent::new" =>
        LET given == TempoEvent(ret.time, ret.bpm, ret.signature)
        IN IF ValidEvent(given)
           THEN ret.value.ok /\ ret.value.value = given
           ELSE ~ret.value.ok /\ ret.value.error = "Validation"

\* an event at the upper end of the bpm range, in 1/128, was accepted as given
TempoEventValidationWitness ==
    /\ ret.op = "TempoEvent::new"
    /\ ret.bpm = 400 /\ ret.signature = <<1, 128>> /\ ret.time = 10000
    /\ ret.value.ok /\ ret.value.value.bpm = 400

\* C15: TempoMap::new fails with a Validation error if the list is empty or if
\* its earliest time is not 0; on success the stored events are the given ones
\* in ascending time order, the first at time 0.
TempoMapConstruction ==
    ret.op = "TempoMap::new" =>
        /\ (\/ Len(ret.events) = 0
            \/ (\A i \in 1..Len(ret.events) : ret.events[i].time # 0)
            \/ (\E j \in 1..Len(ret.events) : ret.events[j].time < 0))
             => (~ret.value.ok /\ ret.value.error = "Validation" /\ tempo_map = <<>>)
        /\ ret.value.ok =>
             /\ tempo_map = <<ret.value.value>>
             /\ Ascending(ret.value.value)
             /\ ret.value.value[1].time = 0
             /\ Len(ret.value.value) = Len(ret.events)
             /\ \A e \in EventPool :
                  Cardinality({i \in 1..Len(ret.events) : ret.events[i] = e})
                    = Cardinality({i \in 1..Len(ret.value.value) : ret.value.value[i] = e})

\* a list given latest event first was stored in ascending order
TempoMapConstructionWitness ==
    /\ ret.op = "TempoMap::new"
    /\ Len(ret.events) = 3
    /\ ret.events[1].time > ret.events[2].time /\ ret.events[2].time > ret.events[3].time
    /\ ret.value.ok
    /\ ret.value.value = <<ret.events[3], ret.events[2], ret.events[1]>>

\* C16: TempoMap::new fails with a Validation error, and no map is built, when
\* some event of the list is itself invalid.
InvalidEventsRejected ==
    (ret.op = "TempoMap::new" /\ \E i \in 1..Len(ret.events) : ~ValidEvent(ret.events[i]))
        => (~ret.value.ok /\ tempo_map = <<>>)

\* C17: every TempoMap a caller obtains is non-empty with its first event at
\* time 0, and bpm_at, time_signature_at and beat_at_time return a value on it.
TempoMapTotal ==
    tempo_map # <<>> =>
        /\ Len(tempo_map[1]) > 0
        /\ tempo_map[1][1].time = 0
        /\ ret.op \in {"bpm_at", "time_signature_at", "beat_at_time"} => ret.value # Panic

\* the last event at or before time t
LatestIndex(events, t) ==
    CHOOSE i \in 1..Len(events) :
        /\ events[i].time <= t
        /\ \A j \in 1..Len(events) : events[j].time <= t => j <= i

\* C18: on a valid map bpm_at(t) and time_signature_at(t) return the values of
\* the latest event with time <= t, the last event's from its time onwards.
StepFunctionQueries ==
    (tempo_map # <<>> /\ ValidMap(tempo_map[1])) =>
        LET events == tempo_map[1]
            last == events[Len(events)]
        IN /\ ret.op = "bpm_at" =>
                /\ ret.value = <<events[LatestIndex(events, ret.time)].bpm>>
                /\ ret.time >= last.time => ret.value = <<last.bpm>>
           /\ ret.op = "time_signature_at" =>
                /\ ret.value = <<events[LatestIndex(events, ret.time)].signature>>
                /\ ret.time >= last.time => ret.value = <<last.signature>>

\* time_signature_at exactly at the time of two tempo changes: the later of the
\* two in the list wins
StepFunctionQueriesWitness ==
    /\ tempo_map = <<<<TempoEvent(0, 120, <<4, 4>>), TempoEvent(10000, 200, <<6, 8>>),
                       TempoEvent(10000, 90, <<3, 4>>)>>>>
    /\ ret.op = "time_signature_at" /\ ret.time = 10000
    /\ ret.value = <<<<3, 4>>>>

\* beats of the segments elapsed at time t: each event's tempo from its time to
\* the next event's time or t
RECURSIVE ElapsedBeats(_, _, _)
ElapsedBeats(events, t, i) ==
    IF i > Len(events) THEN 0
    ELSE LET stop == IF i < Len(events) THEN Min(events[i + 1].time, t) ELSE t
         IN Max(stop - events[i].time, 0) * events[i].bpm + ElapsedBeats(events, t, i + 1)

\* C19: on a valid map beat_at_time(t) is the sum over the elapsed segments of
\* duration times tempo, and a query at a later time never returns less than a
\* query at an earlier time.
BeatAtTimeMonotone ==
    [][(ret'.op = "beat_at_time" /\ tempo_map' # <<>> /\ ValidMap(tempo_map'[1])) =>
          /\ ret'.value = <<ElapsedBeats(tempo_map'[1], ret'.time, 1)>>
          /\ (ret.op = "beat_at_time" /\ tempo_map = tempo_map' /\ ret.time <= ret'.time)
                => ret.value[1] <= ret'.value[1]]_vars

\* 12 s into a map that slows from 120 to 90 BPM at 10 s: 20 + 3 beats
BeatAtTimeMonotoneWitness ==
    /\ tempo_map = <<<<TempoEvent(0, 120, <<4, 4>>), TempoEvent(10000, 90, <<3, 4>>)>>>>
    /\ ret.op = "beat_at_time" /\ ret.time = 12000
    /\ ret.value = <<23 * BeatUnit>>

\* C20: on a valid map of one tempo, beat_at_time(duration_between_beats(0, b))
\* is b to within the beats of one nanosecond (bpm millionths of a beat unit).
BeatTimeRoundTrip ==
    (ret.op = "round_trip" /\ tempo_map # <<>> /\ ValidMap(tempo_map[1])
       /\ \A i \in 1..Len(tempo_map[1]) : tempo_map[1][i].bpm = tempo_map[1][1].bpm) =>
        /\ ret.value # Panic
        /\ Abs(ret.beat - ret.value[1][1]) <= tempo_map[1][1].bpm
        /\ Abs((ret.beat - ret.value[1][1]) * 1000000 - ret.value[1][2]) < tempo_map[1][1].bpm

\* 2.5 beats at 90 BPM last 1666.66.. ms: the Duration is not exact and the beat
\* that comes back is not 2.5 exactly
BeatTimeRoundTripWitness ==
    /\ ret.op = "round_trip"
    /\ tempo_map = <<<<TempoEvent(0, 90, <<4, 4>>)>>>>
    /\ ret.beat = 5 * (BeatUnit \div 2)
    /\ ret.duration[1].ms = 1666
    /\ ret.value # <<<<ret.beat, 0>>>>

----------------------------------------------------------------------------
(* Claims about the controls of the practice pane *)

\* C21: a frame in which Reset is clicked on a stopped session leaves the
\* playhead at the start of the loop region (0 without a region) and leaves the
\* status table and the captured hits as they were.
ResetToLoopStart ==
    [][(PassReset /\ ~playing) =>
          /\ playhead' = RegionBegin'
          /\ statuses' = statuses
          /\ hits' = hits]_vars

\* C22: a frame in which Retry is clicked on the review card leaves the playhead at
\* the start of the loop region (0 without a region), every entry of the status
\* table None, no captured hit and a pass counter of 0.
RetryRestartsRun ==
    [][LoopRetry =>
          /\ playhead' = RegionBegin'
          /\ \A i \in DOMAIN statuses' : statuses'[i] = None
          /\ hits' = <<>>
          /\ loops_done' = 0
          /\ ~review_active']_vars

\* C22 witness: after Retry on the review of a Test run over the region from beat 2
\* in which a strike was matched: the report still counts the strike that the hit
\* log has lost
RetryRestartsRunWitness ==
    /\ session = 4 /\ mode = "Test" /\ ~playing /\ ~review_active
    /\ loop_use_region /\ loop_a = LoopA /\ playhead = LoopA
    /\ analytics # <<>> /\ analytics[1].accuracy[1] >= 1
    /\ hits = <<>> /\ loops_done = 0
    /\ \A i \in DOMAIN statuses : statuses[i] = None

\* C23: with the A/B region in use, an edit that leaves B below A is corrected by
\* the swap: a frame without input, a frame that toggles the region and a frame
\* that drags A or B end with loop_a <= loop_b; dragging A beyond B exchanges the
\* two; and the frame after a handle of the highway was dragged across the other
\* exchanges them before it evaluates the loop boundary.
RegionOrdered ==
    [][/\ (LoopTick \/ LoopToggleRegion \/ LoopDragA \/ LoopDragB) =>
             (loop_use_region' => loop_a' <= loop_b')
       /\ (loop_use_region /\ loop_b < LoopA /\ LoopDragA) =>
             (loop_a' = loop_b /\ loop_b' = LoopA)
       /\ (loop_use_region /\ loop_b < loop_a /\ LoopTick) =>
             (loop_a' = loop_b /\ loop_b' = loop_a)]_vars

\* C23 witness: A was dragged to beat 2 with B at 0 and the region in use; the swap
\* has left the region from 0 to 2
RegionOrderedWitness ==
    /\ session = 4 /\ loop_use_region /\ loop_a = 0 /\ loop_b = LoopA

----------------------------------------------------------------------------
(* Claims about the statistics of a lesson, checked under SpecScoring *)

\* C24: update_statistics leaves the average at (previous average + accuracy of the
\* report) / 2 and the streak one higher if the accuracy is above 0.9, else one
\* lower but not below 0; through any sequence of reports with accuracy in [0, 1]
\* the average stays in [0, 1] and the streak is not negative.
StatisticsUpdate ==
    ret.op = "update_statistics" =>
        /\ 2 * ret.value.average_accuracy[1] * ret.stats.average_accuracy[2] * ret.accuracy[2]
             = ret.value.average_accuracy[2]
                 * (ret.stats.average_accuracy[1] * ret.accuracy[2]
                      + ret.accuracy[1] * ret.stats.average_accuracy[2])
        /\ ret.value.highest_streak =
              IF 10 * ret.accuracy[1] > 9 * ret.accuracy[2]
              THEN ret.stats.highest_streak + 1
              ELSE IF ret.stats.highest_streak = 0 THEN 0
              ELSE ret.stats.highest_streak - 1
        /\ 0 <= ret.value.average_accuracy[1]
        /\ ret.value.average_accuracy[1] <= ret.value.average_accuracy[2]
        /\ ret.value.highest_streak >= 0

\* C24 witness: the third report in a row, of accuracy exactly 0.9, on statistics
\* whose streak is back at 0 and whose average is above 0: the floor holds the streak
StatisticsUpdateWitness ==
    /\ ret.op = "update_statistics" /\ ret.calls = MaxReports
    /\ ret.accuracy = <<9, 10>>
    /\ ret.stats.highest_streak = 0 /\ ret.stats.average_accuracy[1] > 0
    /\ ret.value.highest_streak = 0

\* C25: register_hit advances current_index by one if there is a next expected
\* event and it is on the piece of the hit, and leaves it otherwise; after one or
\* more calls on a new SessionState current_index <= notation.len(), completed
\* holds exactly when current_index = notation.len(), and a completed session
\* stays completed.
LessonProgress ==
    ret.op = "register_hit" =>
        LET notation == Charts[ret.state.session].notation
            at == ret.before.current_index
        IN /\ ret.state.session = ret.before.session
           /\ ret.state.current_index =
                 IF at < Len(notation) /\ notation[at + 1].piece = ret.piece
                 THEN at + 1 ELSE at
           /\ ret.state.current_index <= Len(notation)
           /\ ret.state.completed <=> ret.state.current_index = Len(notation)
           /\ ret.before.completed => ret.state.completed

\* C25 witness: the fourth hit completes the three notes of chart B, one of the
\* hits before it having been on the wrong piece
LessonProgressWitness ==
    /\ ret.op = "register_hit" /\ ret.calls = MaxRegistered
    /\ ret.state.session = 2 /\ ~ret.before.completed
    /\ ret.state.completed /\ ret.state.current_index = 3

----------------------------------------------------------------------------
(* Claims about frames and strikes in both modes, checked under Spec *)

\* C26: after every frame of a playing session past its count-in, in FreePlay as
\* in Test mode, no entry is left None whose expected beat plus the match window
\* lies before the playhead (frames that restart the loop set aside).
MissedOnEveryTick ==
    [][\A dt \in Dts :
         (/\ pc = "ui" /\ session # 0 /\ playing /\ ~pre_roll_active
          /\ playhead' = playhead + dt * bpm
          /\ UiStep(Click("none", 0), dt, MaxPasses)) =>
            \A i \in DOMAIN statuses' :
                ~(statuses'[i] = None /\ Notation[i].beat + FrameMatchWindow < playhead')]_vars

\* the entries a step changes
Resolved == {i \in DOMAIN statuses : StatusGet(statuses', i) # statuses[i]}

\* C27: a poll that handles one live strike changes at most one entry of the
\* status table, from None to OnTime, Late or Early, and then appends exactly that
\* strike to the captured hits; without a qualifying candidate it leaves every
\* entry as it was; and it moves neither the playhead nor the pass counter.
StrikeResolvesOne ==
    [][\A p \in Pieces :
         OneStrike(p) /\ PollMidi =>
            /\ DOMAIN statuses' = DOMAIN statuses
            /\ Cardinality(Resolved) <= 1
            /\ \A i \in Resolved :
                 statuses[i] = None /\ statuses'[i] \in {"OnTime", "Late", "Early"}
            /\ Resolved # {} =>
                 hits' = Append(hits, [beat |-> StrikeBeat, piece |-> p,
                                       velocity |-> midi_q[1][3]])
            /\ Candidates(p) = {} => statuses' = statuses
            /\ playhead' = playhead
            /\ loops_done' = loops_done]_vars

\* C27 witness: a snare strike at beat 0 has resolved the snare notated at 0 as
\* OnTime and left the snare at 6/16 None
StrikeResolvesOneWitness ==
    /\ session = 1 /\ pc = "ui" /\ playing /\ playhead = Grid
    /\ Len(hits) = 1 /\ hits[1].beat = 0 /\ hits[1].piece = "Snare"
    /\ statuses = <<None, "OnTime">>

----------------------------------------------------------------------------
(* Claims about the tempo the matcher sees, checked under SpecLesson *)

\* C28: while a session plays past its count-in, the match window handle_live_hit
\* would use for a strike equals the match window of the frame's missed
\* detection, with the lesson tempo and tempo changes as with a fixed BPM.
MatcherWindowAgrees ==
    (session # 0 /\ playing /\ ~pre_roll_active) =>
        MatchWindow(Pane, settings) = TickWindow(Pane, settings)

PreRollWallClock ==
    /\ [][/\ (~playing /\ playing') =>
                (/\ pre_roll_active'
                 /\ pre_roll_remaining' = settings.tutor_pre_roll_beats * 1000)
          /\ \A dt \in LessonDts :
                (/\ pc = "ui" /\ session # 0 /\ playing /\ pre_roll_active
                 /\ UiStep(Click("none", 0), dt, MaxPasses)) =>
                    (/\ pre_roll_remaining' = pre_roll_remaining - dt
                     /\ pre_roll_active' = (pre_roll_remaining - dt > 0)
                     /\ playing')]_vars
    /\ ((playing /\ pre_roll_active) ~> (~pre_roll_active \/ ~playing))

\* C30 witness: the count-in of a session resumed after the tempo change, at 300
\* BPM, has just ended, its last frame having brought the remaining time to 0
PreRollWallClockWitness ==
    /\ session = 2 /\ playing /\ ~pre_roll_active /\ pre_roll_remaining = 0
    /\ elapsed_secs = 150 /\ pc = "poll"
    /\ bpm_at(Charts[session].default_tempo, elapsed_secs) = Returned(300)

\* C31: during the count-in with the metronome on, the clicks follow the
\* countdown: the k-th click is not played before k-1 seconds of the countdown
\* have elapsed.  next_click_beat counts the clicks played since the countdown
\* began, 1000 per click.
CountInClicksFollowCountdown ==
    (playing /\ pre_roll_active /\ Metronome(settings))
        => next_click_beat - 1000
             <= settings.tutor_pre_roll_beats * 1000 - pre_roll_remaining

\* C32: in a playing frame with the metronome on, the clicks played are the
\* integer beat positions the playhead crossed in the frame, also in the frames
\* after a loop restart: no fewer than the integers strictly between the two
\* playhead positions and no more than those of the closed interval.  Frames
\* that end a pass reset next_click_beat and are left out.  Stated at a fixed
\* practice BPM, where the playhead of a frame only moves forward.
MetronomeClicksCrossedBeats ==
    [][(/\ MetroTick /\ playing /\ ~pre_roll_active /\ Metronome(settings)
        /\ ~settings.tutor_use_lesson_tempo
        /\ playing' /\ loops_done' = loops_done)
       => (next_click_beat' - next_click_beat) \div BeatUnit
            \in ((playhead' + BeatUnit - 1) \div BeatUnit - playhead \div BeatUnit - 1)
                 .. (playhead' \div BeatUnit
                       - (playhead + BeatUnit - 1) \div BeatUnit + 1)]_vars

\* C33: on a valid map of several tempo events, beat_at_time(
\* duration_between_beats(0, b)) is b, to within the beats of one millisecond at
\* the fastest tempo of the map.
MultiSegmentRoundTrip ==
    (ret.op = "round_trip" /\ tempo_map # <<>> /\ ValidMap(tempo_map[1])
       /\ Len(tempo_map[1]) >= 2) =>
        /\ ret.value # Panic
        /\ \E i \in 1..Len(tempo_map[1]) :
              Abs(ret.beat - ret.value[1][1]) <= tempo_map[1][i].bpm

----------------------------------------------------------------------------
(* Claims about the drain of the MIDI channel, checked under SpecDrain *)

\* the waiting Note On messages that the mapping sends to piece p
StrikesOf(p) ==
    {k \in 1..Len(midi_q) : IsNoteOn(midi_q[k][1]) /\ settings.mapping[p] = midi_q[k][2]}

\* C34: the poll of a frame takes every waiting message (none, one or several)
\* and leaves the channel empty; it does not move the playhead, and it matches
\* every strike against the one latency compensated beat of that playhead: the
\* strikes on a piece resolve as many entries as there are candidates of that
\* beat, up to the number of strikes, and every hit appended carries that beat.
DrainOneSnapshot ==
    [][(pc = "poll" /\ pc' = "ui" /\ session # 0) =>
          /\ midi_q' = <<>>
          /\ playhead' = playhead
          /\ Len(hits') >= Len(hits) /\ SubSeq(hits', 1, Len(hits)) = hits
          /\ \A i \in (Len(hits) + 1)..Len(hits') : hits'[i].beat = StrikeBeat
          /\ \A p \in Pieces :
                Cardinality({i \in Resolved : Notation[i].piece = p})
                    = Min(Cardinality(StrikesOf(p)), Cardinality(Candidates(p)))]_vars

\* C34 witness: one poll has matched a snare strike and a bass strike at the same
\* beat 2/16 of a playing session
DrainOneSnapshotWitness ==
    /\ session = 2 /\ pc = "ui" /\ playing /\ playhead = 3 * Grid /\ loops_done = 0
    /\ Len(hits) = 2 /\ hits[1].beat = 2 * Grid /\ hits[2].beat = 2 * Grid
    /\ hits[1].piece = "Snare" /\ hits[2].piece = "Bass"
    /\ statuses = <<"Late", "Early", None>>

----------------------------------------------------------------------------
(* Claims about missed detection and the input latency, checked under
   SpecLatency *)

\* C35: when a frame labels an entry Missed, a strike of its piece handled at the
\* playhead the frame leaves could not have matched it: the latency compensated
\* beat of such a strike is at least the match window away from the entry.
MissedOutOfReach ==
    [][\A i \in DOMAIN statuses :
          (pc = "ui" /\ session' = session /\ i \in DOMAIN statuses'
             /\ statuses[i] = None /\ statuses'[i] = "Missed") =>
              Abs(Notation[i].beat - Max(playhead' - settings.latency_ms * bpm', 0))
                  >= WindowBeats(settings.practice_match_window_pct,
                                 settings.practice_match_cap_ms, bpm')]_vars

----------------------------------------------------------------------------
(* Claims about the review of a finished run, checked under Spec *)

\* C36: while the review of a stopped run over the whole chart is shown, every
\* entry of the status table carries a label (OnTime, Early, Late or Missed).
ReviewComplete ==
    (session # 0 /\ review_active /\ ~playing /\ ~loop_use_region) =>
        \A i \in DOMAIN statuses : statuses[i] # None

\* C37: a poll that handles a strike while the transport is not playing (before
\* the start, paused, during the count-in, or stopped with the review shown)
\* changes neither the status table nor the captured hits.
StrikesOnlyWhilePlaying ==
    [][\A p \in Pieces :
         (OneStrike(p) /\ PollMidi /\ (~playing \/ pre_roll_active \/ review_active)) =>
            statuses' = statuses /\ hits' = hits]_vars

----------------------------------------------------------------------------
(* Claims about the playhead and the loop region, checked under SpecMetronome *)

\* C38: with the region in use and the playhead of a playing session at or after
\* its start A, a frame without input leaves the playhead at or after A, and a
\* frame that does not end the pass does not move it backwards, at a fixed BPM
\* and with the lesson tempo alike.
PlayheadInRegion ==
    [][(/\ MetroTick /\ session # 0 /\ playing /\ loop_use_region
        /\ loop_a <= loop_b /\ playhead >= loop_a)
       => (/\ playhead' >= loop_a
           /\ loops_done' = loops_done => playhead' >= playhead)]_vars

----------------------------------------------------------------------------
(* Claims about unattended runs, checked under FairSpecRun *)

\* C39: a session playing in Test mode that gets frames and no input eventually
\* stops with the review shown, on a chart with notes and on the empty chart,
\* with and without the countdown on each loop; a session playing in Free Play
\* is never stopped by a frame.
TestRunTerminates ==
    /\ [][(playing /\ mode = "FreePlay") => playing']_vars
    /\ (playing /\ mode = "Test") ~> (~playing /\ review_active)

\* C39 witness: a Test run on the empty chart, with the countdown on each loop,
\* has stopped after its two passes
TestRunTerminatesWitness ==
    /\ session = 5 /\ mode = "Test" /\ ~playing /\ review_active
    /\ loops_done = loop_total /\ loop_total = 2
    /\ settings.practice_countdown_each_loop

====
